---- MODULE Spec2Model ----
(***************************************************************************)
(* A model of the ARC_study core: the Board decomposition search           *)
(* (arc/board.py), the find_closest matcher and its comparison functions   *)
(* (arc/board.py, arc/comparisons.py) and the Action algebra               *)
(* (arc/actions.py).                                                       *)
(*                                                                         *)
(* Three specifications share the module:                                  *)
(*   Spec      the Board state machine (decompose and its rounds)          *)
(*   SpecFind  find_closest applied to bounded inputs                      *)
(*   SpecAct   act / inv of the registered Actions on bounded grid objects *)
(* Each one pins the variables of the other two to their idle values.      *)
(***************************************************************************)
EXTENDS Integers, Sequences, FiniteSets, TLC

VARIABLES
    \* ---- Board (arc/board.py) ----
    rep,        \* Board.rep
    proc_q,     \* Board.proc_q, left end first
    bank,       \* Board.bank
    processes,  \* Board.processes
    pc,         \* position inside decompose: "idle", "loop", "batch", "final"
    batch,      \* argument of the running decompose call
    max_iter,   \* argument of the running decompose call
    ct,         \* rounds of the running decompose call already completed
    bct,        \* batch_decomposition's local ct
    calls,      \* decompose calls that have returned
    proc_t,     \* history: enqueue ticket of each element of proc_q
    next_t,     \* history: next enqueue ticket
    last_t,     \* history: ticket of the object popped last
    rep_log,    \* history: props of every object assigned to rep, in order
                \* (the root of __init__, then each log.debug of line 46)
    root_props, \* history: props of the root object built by __init__
    drained,    \* history: proc_q was empty when decompose returned last
    \* ---- find_closest ----
    f_pc, f_obj, f_inv, f_thr, f_res,
    \* ---- Actions ----
    a_pc, a_obj, a_code, a_args, a_out, a_inv, a_back,
    \* ---- chains of Action calls ----
    s_pc,       \* "off", or "run" while calls are applied
    s_fam,      \* the family of Actions the calls are taken from
    s_obj,      \* the object the chain starts from
    s_calls,    \* the calls applied so far, in order
    s_cur,      \* the result of the last call
    \* ---- rearg ----
    r_pc,       \* "in", "reargd", "done"
    r_obj,      \* the object
    r_code,     \* the code of the Action
    r_dr, r_dc, \* the displacement, as arguments of Translate
    r_re,       \* what rearg returned
    r_out,      \* the result of act with the arguments rearg returned
    \* ---- comparisons ----
    c_pc,       \* "in", "done"
    c_left,     \* the left object
    c_right,    \* the right object
    c_res,      \* the results of the comparisons, in the order of the list
    \* ---- Template (arc/template.py) ----
    t_pc,       \* "in", "done"
    t_objs,     \* the objects handed to from_outputs
    t_structure,    \* Template.structure
    t_variables,    \* Template.variables
    \* ---- Template.create_output, Template.validate_link_map ----
    o_fn,       \* "off", "", "create_output", "validate_link_map"
    o_n,        \* the number of calls made
    o_bindings, \* the bindings handed to every call
    o_out,      \* what the last call returned (or that it raised)
    o_prev,     \* what the call before it returned
    \* ---- Board._decomposition (one call) ----
    d_pc,       \* "in", "done"
    d_obj,      \* the object handed to _decomposition
    d_procs,    \* Board.processes
    d_res,      \* the candidates returned
    d_ran,      \* the processes whose run was called, in order
    \* ---- Board.select_representation (one call) ----
    l_pc,       \* "in", "done"
    l_rep,      \* Board.rep
    l_bank,     \* Board.bank
    l_q,        \* Board.proc_q
    l_was       \* history: rep, bank and proc_q before the call

bvars == <<rep, proc_q, bank, processes, pc, batch, max_iter, ct, bct, calls,
           proc_t, next_t, last_t, rep_log, root_props, drained>>
fvars == <<f_pc, f_obj, f_inv, f_thr, f_res>>
avars == <<a_pc, a_obj, a_code, a_args, a_out, a_inv, a_back>>
svars == <<s_pc, s_fam, s_obj, s_calls, s_cur>>
rvars == <<r_pc, r_obj, r_code, r_dr, r_dc, r_re, r_out>>
cvars == <<c_pc, c_left, c_right, c_res>>
tvars == <<t_pc, t_objs, t_structure, t_variables>>
ovars == <<o_fn, o_n, o_bindings, o_out, o_prev>>
dvars == <<d_pc, d_obj, d_procs, d_res, d_ran>>
lvars == <<l_pc, l_rep, l_bank, l_q, l_was>>
vars == <<bvars, fvars, avars, svars, rvars, cvars, tvars, ovars, dvars,
         lvars>>

(***************************************************************************)
(* Bounds of the model.                                                    *)
(***************************************************************************)
MaxDots == 5      \* points of the grid a Board is built from
MaxProcs == 2     \* length of the process list
MaxBatch == 2     \* largest batch argument
MaxIter == 2      \* largest max_iter argument
MaxCalls == 2     \* decompose calls on one Board
MaxInv == 2       \* length of the inventory given to find_closest
MaxCells == 6     \* cells of the grid of an object an Action is applied to
MaxCode == 2      \* largest generator code of such an object
MaxSteps == 4     \* length of a chain of Vertical / Horizontal / Translate calls
MaxChain == 2     \* length of a chain of calls of the other Actions

(***************************************************************************)
(* Program constants (arc/definitions.py).                                 *)
(***************************************************************************)
DOT_PROPS == 1
NON_DOT_PROPS == 2
MAX_DIST == 10000
NULL_COLOR == 10

(***************************************************************************)
(* Object, as far as the Board needs it.  A node is a leaf (no children)   *)
(* or a container; gen counts the parameters of its generator; fin is the  *)
(* trait "finished".                                                       *)
(***************************************************************************)
Dot == [gen |-> 0, fin |-> FALSE, ch |-> <<>>]

Line == [gen |-> 1, fin |-> FALSE, ch |-> <<>>]

Container(kids, finished) == [gen |-> 0, fin |-> finished, ch |-> kids]

\* Object.from_grid: a grid of n points becomes one container of n dots.
FromGrid(n) == Container([i \in 1..n |-> Dot], FALSE)

RECURSIVE Props(_)
RECURSIVE SumProps(_)
SumProps(kids) ==
    IF kids = <<>> THEN 0 ELSE Props(Head(kids)) + SumProps(Tail(kids))

\* Object.props: a point weighs DOT_PROPS, a container NON_DOT_PROPS plus
\* its children, a generator one per parameter.
Props(o) ==
    IF Len(o.ch) = 0
    THEN DOT_PROPS + o.gen
    ELSE NON_DOT_PROPS + o.gen + SumProps(o.ch)

RECURSIVE Flatten(_)
RECURSIVE FlattenKids(_)
FlattenKids(kids) ==
    IF kids = <<>> THEN <<>>
    ELSE LET k == Flatten(Head(kids))
         IN  (IF Len(k.ch) > 0 /\ k.gen = 0 THEN k.ch ELSE <<k>>)
                 \o FlattenKids(Tail(kids))

\* Object.flatten: children of a container that only holds objects are
\* brought up one level, recursively.
Flatten(o) ==
    IF Len(o.ch) = 0 THEN o ELSE [o EXCEPT !.ch = FlattenKids(o.ch)]

\* Object.spawn: a rebuilt object with the same content.
Spawn(o) == o

(***************************************************************************)
(* Processes: black boxes with test(obj) -> bool and run(obj) -> Object or *)
(* None.  ProcessRun returns <<>> for None and <<candidate>> otherwise.    *)
(* Four kinds stand for the behaviours a process can show: a candidate     *)
(* that is cheaper, one that is cheaper only once flattened, one that is   *)
(* more expensive, a failed run and a refused test.                        *)
(***************************************************************************)
ProcessKinds == {"MergeAll", "MergeMost", "Group", "Picky"}

ProcessTest(p, o) ==
    CASE p = "MergeAll"  -> Len(o.ch) >= 2
      [] p = "MergeMost" -> Len(o.ch) >= 3
      [] p = "Group"     -> Len(o.ch) >= 2
      [] p = "Picky"     -> Len(o.ch) % 2 = 0

ProcessRun(p, o) ==
    CASE p = "MergeAll"  ->
            \* every child becomes one line, held in a group of its own
            << Container(<< Container(<<Line>>, FALSE) >>, TRUE) >>
      [] p = "MergeMost" ->
            \* all children but the last become one line
            << Container(<<Line, o.ch[Len(o.ch)]>>, TRUE) >>
      [] p = "Group"     ->
            \* the first two children are grouped
            << Container(<< Container(SubSeq(o.ch, 1, 2), FALSE) >>
                            \o SubSeq(o.ch, 3, Len(o.ch)), TRUE) >>
      [] p = "Picky"     -> <<>>

RECURSIVE ListsUpTo(_, _)
\* the process lists a Board is built with: the non-empty lists of at most
\* n different kinds (an empty argument is replaced by the default list)
ListsUpTo(S, n) ==
    IF n = 0 THEN {}
    ELSE {<<x>> : x \in S}
           \cup UNION { {Append(s, x) : x \in S \ {s[i] : i \in 1..Len(s)}} :
                           s \in ListsUpTo(S, n - 1) }

(***************************************************************************)
(* Board                                                                   *)
(***************************************************************************)
RECURSIVE GenerateFromUntested(_, _, _)
\* the loop of generate_candidates without the test guard
GenerateFromUntested(obj, procs, i) ==
    IF i > Len(procs) THEN <<>>
    ELSE ProcessRun(procs[i], obj) \o GenerateFromUntested(obj, procs, i + 1)

RECURSIVE GenerateFrom(_, _, _)
GenerateFrom(obj, procs, i) ==
    IF i > Len(procs) THEN <<>>
    ELSE (IF ProcessTest(procs[i], obj) THEN ProcessRun(procs[i], obj) ELSE <<>>)
            \o GenerateFrom(obj, procs, i + 1)

\* Board.generate_candidates
GenerateCandidates(obj, procs) == GenerateFrom(obj, procs, 1)

RECURSIVE Decomposition(_, _)
RECURSIVE FinishedScan(_, _, _)
RECURSIVE FinishedScanForward(_, _, _)
\* the loop of lines 96-104 scanning the children from the first one
FinishedScanForward(obj, procs, rev_idx) ==
    IF rev_idx >= Len(obj.ch) THEN <<>>
    ELSE LET idx == rev_idx + 1
             child_candidates == Decomposition(obj.ch[idx], procs)
         IN  IF child_candidates # <<>>
             THEN [i \in 1..Len(child_candidates) |->
                      [Spawn(obj) EXCEPT !.ch[idx] = child_candidates[i]]]
             ELSE FinishedScanForward(obj, procs, rev_idx + 1)

\* the loop of lines 96-104 from child children[-(1 + rev_idx)] on
FinishedScan(obj, procs, rev_idx) ==
    IF rev_idx >= Len(obj.ch) THEN <<>>
    ELSE LET idx == Len(obj.ch) - rev_idx
             child_candidates == Decomposition(obj.ch[idx], procs)
         IN  IF child_candidates # <<>>
             THEN [i \in 1..Len(child_candidates) |->
                      [Spawn(obj) EXCEPT !.ch[idx] = child_candidates[i]]]
             ELSE FinishedScan(obj, procs, rev_idx + 1)

\* Board._decomposition
Decomposition(obj, procs) ==
    IF Len(obj.ch) = 0 THEN <<>>
    ELSE IF obj.fin THEN FinishedScan(obj, procs, 0)
    ELSE GenerateCandidates(obj, procs)

\* line 43 replacing rep on equal props too
CheaperOrSame(props, best_props) == props <= best_props

\* line 43 with the comparison turned round
CheaperFlipped(props, best_props) == props > best_props

\* the comparison of line 43
Cheaper(props, best_props) == props < best_props

RECURSIVE SelectScan(_, _, _, _, _)
SelectScan(objs, i, best_props, r, log) ==
    IF i > Len(objs) THEN [rep |-> r, log |-> log]
    ELSE IF Cheaper(Props(objs[i]), best_props)
         THEN LET new == Flatten(objs[i])
              IN  SelectScan(objs, i + 1, Props(objs[i]), new,
                             Append(log, Props(new)))
         ELSE SelectScan(objs, i + 1, best_props, r, log)

\* line 42 without the processing queue
ScannedBankOnly(bk, q) == bk

\* the objects select_representation scans, in scan order (line 42)
Scanned(bk, q) == bk \o q

\* Board.select_representation: the new rep, and the log extended by the
\* props of each object it assigned to rep
SelectRepresentation(r, bk, q, log) ==
    SelectScan(Scanned(bk, q), 1, Props(r), r, log)

\* deque.pop: the right end instead of the left
PopRight(q) == [item |-> q[Len(q)], rest |-> SubSeq(q, 1, Len(q) - 1)]

\* deque.popleft
PopLeft(q) == [item |-> Head(q), rest |-> Tail(q)]

\* deque.extend
Extend(q, new) == q \o new

\* line 78 without its guard: every popped object is banked
TerminalAlways(new_objs) == TRUE

\* the guard of line 78
Terminal(new_objs) == new_objs = <<>>

\* lines 63-65 without the break
BreakRoundNever(q) == FALSE

\* the guard of lines 63-65
BreakRound(q) == q = <<>>

AsIdleB ==
    /\ rep = Dot /\ proc_q = <<>> /\ bank = <<>> /\ processes = <<>>
    /\ pc = "off" /\ batch = 0 /\ max_iter = 0 /\ ct = 0 /\ bct = 0
    /\ calls = 0 /\ proc_t = <<>> /\ next_t = 0 /\ last_t = 0
    /\ rep_log = <<>> /\ root_props = 0 /\ drained = FALSE

AsIdleF == f_pc = "off" /\ f_obj = 0 /\ f_inv = <<>> /\ f_thr = 0 /\ f_res = 0

AsIdleA ==
    /\ a_pc = "off" /\ a_obj = 0 /\ a_code = "" /\ a_args = <<>>
    /\ a_out = 0 /\ a_inv = <<>> /\ a_back = 0

AsIdleS ==
    s_pc = "off" /\ s_fam = "" /\ s_obj = 0 /\ s_calls = <<>> /\ s_cur = 0

AsIdleR ==
    /\ r_pc = "off" /\ r_obj = 0 /\ r_code = "" /\ r_dr = 0 /\ r_dc = 0
    /\ r_re = <<>> /\ r_out = 0

AsIdleC == c_pc = "off" /\ c_left = 0 /\ c_right = 0 /\ c_res = <<>>

AsIdleT ==
    t_pc = "off" /\ t_objs = <<>> /\ t_structure = 0 /\ t_variables = {}

AsIdleO ==
    o_fn = "off" /\ o_n = 0 /\ o_bindings = <<>> /\ o_out = 0 /\ o_prev = 0

AsIdleD ==
    d_pc = "off" /\ d_obj = 0 /\ d_procs = <<>> /\ d_res = <<>> /\ d_ran = <<>>

AsIdleL ==
    l_pc = "off" /\ l_rep = 0 /\ l_bank = <<>> /\ l_q = <<>> /\ l_was = <<>>

\* Board.__init__
Init ==
    /\ \E n \in 1..MaxDots : rep = FromGrid(n)
    /\ processes \in ListsUpTo(ProcessKinds, MaxProcs)
    /\ proc_q = <<rep>>
    /\ bank = <<>>
    /\ pc = "idle"
    /\ batch = 0 /\ max_iter = 0 /\ ct = 0 /\ bct = 0 /\ calls = 0
    /\ proc_t = <<1>> /\ next_t = 2 /\ last_t = 0
    /\ rep_log = <<Props(rep)>>
    /\ root_props = Props(rep)
    /\ drained = FALSE
    /\ AsIdleF /\ AsIdleA /\ AsIdleS /\ AsIdleR /\ AsIdleC /\ AsIdleT
    /\ AsIdleO /\ AsIdleD /\ AsIdleL

\* decompose seeding the queue with rep again on every call
DecomposeRestart(b, m) ==
    /\ pc = "idle"
    /\ calls < MaxCalls
    /\ batch' = b /\ max_iter' = m
    /\ ct' = 0 /\ bct' = 0
    /\ pc' = "loop"
    /\ proc_q' = <<rep>> /\ proc_t' = <<next_t>> /\ next_t' = next_t + 1
    /\ UNCHANGED <<rep, bank, processes, calls, last_t, rep_log, root_props,
                   drained>>
    /\ UNCHANGED <<fvars, avars, svars, rvars, cvars, tvars, ovars, dvars, lvars>>

\* a call of Board.decompose(batch, max_iter)
Decompose(b, m) ==
    /\ pc = "idle"
    /\ calls < MaxCalls
    /\ batch' = b /\ max_iter' = m
    /\ ct' = 0 /\ bct' = 0
    /\ pc' = "loop"
    /\ UNCHANGED <<rep, proc_q, bank, processes, calls, proc_t, next_t,
                   last_t, rep_log, root_props, drained>>
    /\ UNCHANGED <<fvars, avars, svars, rvars, cvars, tvars, ovars, dvars, lvars>>

\* the head of the for loop of line 56, and the entry of batch_decomposition
RoundStart ==
    /\ pc = "loop"
    /\ IF ct < max_iter
       THEN pc' = "batch" /\ bct' = 0
       ELSE pc' = "final" /\ bct' = bct
    /\ UNCHANGED <<rep, proc_q, bank, processes, batch, max_iter, ct, calls,
                   proc_t, next_t, last_t, rep_log, root_props, drained>>
    /\ UNCHANGED <<fvars, avars, svars, rvars, cvars, tvars, ovars, dvars, lvars>>

\* one pass of the while loop of batch_decomposition (lines 72-84)
BatchItem ==
    /\ pc = "batch"
    /\ proc_q # <<>> /\ bct < batch
    /\ LET obj == PopLeft(proc_q).item
           new_objs == Decomposition(obj, processes)
           bank1 == IF Terminal(new_objs)
                    THEN Append(bank, Flatten(obj)) ELSE bank
           q1 == Extend(PopLeft(proc_q).rest, new_objs)
           sel == SelectRepresentation(rep, bank1, q1, rep_log)
       IN  /\ bct' = bct + 1
           /\ bank' = bank1
           /\ proc_q' = q1
           /\ rep' = sel.rep
           /\ rep_log' = sel.log
           /\ last_t' = PopLeft(proc_t).item
           /\ proc_t' = Extend(PopLeft(proc_t).rest,
                               [i \in 1..Len(new_objs) |-> next_t + i - 1])
           /\ next_t' = next_t + Len(new_objs)
    /\ UNCHANGED <<processes, pc, batch, max_iter, ct, calls, root_props,
                   drained>>
    /\ UNCHANGED <<fvars, avars, svars, rvars, cvars, tvars, ovars, dvars, lvars>>

\* batch_decomposition returns; lines 62-65 of decompose
BatchEnd ==
    /\ pc = "batch"
    /\ ~(proc_q # <<>> /\ bct < batch)
    /\ ct' = ct + 1
    /\ pc' = IF BreakRound(proc_q) THEN "final" ELSE "loop"
    /\ UNCHANGED <<rep, proc_q, bank, processes, batch, max_iter, bct, calls,
                   proc_t, next_t, last_t, rep_log, root_props, drained>>
    /\ UNCHANGED <<fvars, avars, svars, rvars, cvars, tvars, ovars, dvars, lvars>>

\* line 66, and the return of decompose
Final ==
    /\ pc = "final"
    /\ LET sel == SelectRepresentation(rep, bank, proc_q, rep_log)
       IN  rep' = sel.rep /\ rep_log' = sel.log
    /\ pc' = "idle"
    /\ calls' = calls + 1
    /\ drained' = (proc_q = <<>>)
    /\ batch' = 0 /\ max_iter' = 0 /\ ct' = 0 /\ bct' = 0
    /\ UNCHANGED <<proc_q, bank, processes, proc_t, next_t, last_t,
                   root_props>>
    /\ UNCHANGED <<fvars, avars, svars, rvars, cvars, tvars, ovars, dvars, lvars>>

Next ==
    \/ \E b \in 0..MaxBatch, m \in 0..MaxIter : Decompose(b, m)
    \/ RoundStart
    \/ BatchItem
    \/ BatchEnd
    \/ Final

Spec == Init /\ [][Next]_vars

(***************************************************************************)
(* Properties of the Board                                                 *)
(***************************************************************************)
NonIncreasing(log) == \A i \in 1..(Len(log) - 1) : log[i + 1] <= log[i]

\* the props of the objects known to the Board
CandidateProps(bk, q) ==
    {Props(bk[i]) : i \in 1..Len(bk)} \cup {Props(q[i]) : i \in 1..Len(q)}

C2_RepIsCheapestKnown ==
    \A p \in CandidateProps(bank, proc_q) : p >= Props(rep)

\* decompose has returned with a rep cheaper than the root while the queue
\* still holds a candidate that costs more
C2_Witness ==
    /\ calls >= 1
    /\ Props(rep) < root_props
    /\ \E i \in 1..Len(proc_q) : Props(proc_q[i]) > Props(rep)

\* an upper bound on the steps the running call still takes: a round is
\* its entry, at most batch items and its end; the return is one step
StepsLeft ==
    CASE pc = "idle"  -> 0
      [] pc = "final" -> 1
      [] pc = "loop"  -> (max_iter - ct) * (batch + 2) + 2
      [] pc = "batch" -> (batch - bct) + 1
                           + (max_iter - (ct + 1)) * (batch + 2) + 2

\* C3: decompose terminates: it runs at most max_iter rounds, a round pops
\* at most batch objects, no round starts after a round that left proc_q
\* empty, the call returns through the select_representation of line 66,
\* and every step of a running call brings its return nearer.
C3_DecomposeTerminates ==
    /\ [](ct <= max_iter /\ bct <= batch /\ StepsLeft >= 0)
    /\ [][(pc = "loop" /\ pc' = "batch") => (ct = 0 \/ proc_q # <<>>)]_vars
    /\ [][calls' # calls =>
            /\ pc = "final" /\ pc' = "idle"
            /\ rep' = SelectRepresentation(rep, bank, proc_q, rep_log).rep]_vars
    /\ [][pc # "idle" => StepsLeft' < StepsLeft]_vars

\* a round has left proc_q empty before max_iter rounds were run, and the
\* call is about to return
C3_Witness ==
    /\ pc = "final"
    /\ proc_q = <<>>
    /\ 0 < ct /\ ct < max_iter

C6_SettledAfterReturn ==
    [][calls >= 1 => UNCHANGED <<rep, bank, proc_q>>]_vars

\* C6 (amended): once decompose has returned with proc_q empty, a further
\* call leaves rep, bank and proc_q unchanged.
C6_SettledWhenDrained ==
    [][(calls >= 1 /\ drained) => UNCHANGED <<rep, bank, proc_q>>]_vars

\* a further call has run a round on a Board whose queue was empty
C6_Witness ==
    /\ calls >= 1 /\ drained
    /\ pc = "batch" /\ batch > 0
    /\ bank # <<>>

(***************************************************************************)
(* Comparisons (arc/comparisons.py) and find_closest (arc/board.py).       *)
(* An object is seen through what the comparisons read: its location, the  *)
(* set of colours of c_rank, its shape and order[2].                       *)
(***************************************************************************)
CmpObject(row, col, colors, h, w, ord) ==
    [row |-> row, col |-> col, colors |-> colors, h |-> h, w |-> w, ord |-> ord]

\* Object.sil: the occupied cells of the two objects coincide (the objects
\* of the model fill their shape)
Sil(left, right) == left.h = right.h /\ left.w = right.w

NoTransform == [k \in {} |-> 0]

\* dict.update: entries of new replace those of old
Update(old, new) == new @@ old

\* get_order_diff
GetOrderDiff(left, right) ==
    IF /\ Cardinality(left.colors) = 1 /\ Cardinality(right.colors) = 1
       /\ Sil(left, right)
    THEN [dist |-> 0, transform |-> NoTransform]
    ELSE IF left.ord # 1 \/ right.ord # 1
    THEN [dist |-> MAX_DIST, transform |-> NoTransform]
    ELSE LET rows == IF left.h # right.h
                     THEN [dist |-> 2, transform |-> [k \in {"f"} |-> left.h - 1]]
                     ELSE [dist |-> 0, transform |-> NoTransform]
             cols == IF left.w # right.w
                     THEN [dist |-> 2, transform |-> [k \in {"p"} |-> left.w - 1]]
                     ELSE [dist |-> 0, transform |-> NoTransform]
         IN  [dist |-> rows.dist + cols.dist,
              transform |-> Update(rows.transform, cols.transform)]

\* get_color_diff proposing the colour of right
GetColorDiffRight(left, right) ==
    LET c1 == left.colors
        c2 == right.colors
    IN  IF c1 = c2 THEN [dist |-> 0, transform |-> NoTransform]
        ELSE IF Cardinality(c1) = 1 /\ Cardinality(c2) = 1
        THEN [dist |-> 2,
              transform |-> [k \in {"c"} |-> CHOOSE c \in c2 : TRUE]]
        ELSE [dist |-> MAX_DIST, transform |-> NoTransform]

\* get_color_diff
GetColorDiff(left, right) ==
    LET c1 == left.colors
        c2 == right.colors
    IN  IF c1 = c2 THEN [dist |-> 0, transform |-> NoTransform]
        ELSE IF Cardinality(c1) = 1 /\ Cardinality(c2) = 1
        THEN [dist |-> 2,
              transform |-> [k \in {"c"} |-> CHOOSE c \in c1 : TRUE]]
        ELSE [dist |-> MAX_DIST, transform |-> NoTransform]

\* get_translation testing the coordinates of right for the special cases
GetTranslationToRight(left, right) ==
    LET r1 == left.row
        c1 == left.col
        r2 == right.row
        c2 == right.col
    IN  IF r1 = r2 /\ c1 = c2 THEN [dist |-> 0, transform |-> NoTransform]
        ELSE IF r2 = 0 /\ c2 = 0
        THEN [dist |-> 1, transform |-> [k \in {"z"} |-> 0]]
        ELSE IF r2 # r1
        THEN IF r2 = 0
             THEN [dist |-> 1, transform |-> [k \in {"j"} |-> 0]]
             ELSE [dist |-> 2, transform |-> [k \in {"w"} |-> r1 - r2]]
        ELSE IF c2 = 0
             THEN [dist |-> 1, transform |-> [k \in {"j"} |-> 1]]
             ELSE [dist |-> 2, transform |-> [k \in {"s"} |-> c1 - c2]]

\* get_translation
GetTranslation(left, right) ==
    LET r1 == left.row
        c1 == left.col
        r2 == right.row
        c2 == right.col
    IN  IF r1 = r2 /\ c1 = c2 THEN [dist |-> 0, transform |-> NoTransform]
        ELSE IF r1 = 0 /\ c1 = 0
        THEN [dist |-> 1, transform |-> [k \in {"z"} |-> 0]]
        ELSE IF r2 # r1
        THEN IF r1 = 0
             THEN [dist |-> 1, transform |-> [k \in {"j"} |-> 0]]
             ELSE [dist |-> 2, transform |-> [k \in {"w"} |-> r1 - r2]]
        ELSE IF c1 = 0
             THEN [dist |-> 1, transform |-> [k \in {"j"} |-> 1]]
             ELSE [dist |-> 2, transform |-> [k \in {"s"} |-> c1 - c2]]

\* default_comparisons, as the results they give for one pair
DefaultComparisons(left, right) ==
    << GetOrderDiff(left, right), GetColorDiff(left, right),
       GetTranslation(left, right) >>

RECURSIVE FoldDelta(_, _, _)
FoldDelta(parts, i, acc) ==
    IF i > Len(parts) THEN acc
    ELSE FoldDelta(parts, i + 1,
            [dist |-> IF acc.dist = MAX_DIST \/ parts[i].dist = MAX_DIST
                      THEN MAX_DIST ELSE acc.dist + parts[i].dist,
             transform |-> Update(acc.transform, parts[i].transform)])

\* ObjectDelta(left, right, comparisons): the distances are summed, MAX_DIST
\* makes the pair incomparable, the transforms are merged
ObjectDelta(left, right) ==
    FoldDelta(DefaultComparisons(left, right), 1,
              [dist |-> 0, transform |-> NoTransform])

\* a threshold is None or the number num / den
NoThreshold == [none |-> TRUE, num |-> 0, den |-> 1]

Threshold(num, den) == [none |-> FALSE, num |-> num, den |-> den]

\* the result None of find_closest
NoMatch == [none |-> TRUE, idx |-> 0, dist |-> 0, transform |-> NoTransform]

\* the ObjectDelta to inventory[idx]
Match(obj, inventory, idx) ==
    [none |-> FALSE, idx |-> idx,
     dist |-> ObjectDelta(obj, inventory[idx]).dist,
     transform |-> ObjectDelta(obj, inventory[idx]).transform]

\* line 140 with <= : a later element of equal distance replaces the match
CloserOrEqual(dist, match_dist) == dist <= match_dist

\* the comparison of line 140
Closer(dist, match_dist) == dist < match_dist

\* line 142 without the test for None
TooFarOrNone(dist, threshold) == dist * threshold.den > threshold.num

\* the test of line 142
TooFar(dist, threshold) ==
    ~threshold.none /\ dist * threshold.den > threshold.num

RECURSIVE ClosestFrom(_, _, _, _)
\* the loop of lines 138-141: the index of the match after inventory[i..]
ClosestFrom(obj, inventory, i, match) ==
    IF i > Len(inventory) THEN match
    ELSE IF Closer(ObjectDelta(obj, inventory[i]).dist,
                   ObjectDelta(obj, inventory[match]).dist)
         THEN ClosestFrom(obj, inventory, i + 1, i)
         ELSE ClosestFrom(obj, inventory, i + 1, match)

\* find_closest
FindClosest(obj, inventory, threshold) ==
    IF inventory = <<>> THEN NoMatch
    ELSE LET match == ClosestFrom(obj, inventory, 2, 1)
         IN  IF TooFar(ObjectDelta(obj, inventory[match]).dist, threshold)
             THEN NoMatch
             ELSE Match(obj, inventory, match)

\* the objects find_closest is applied to
FindPool ==
    {CmpObject(r, 0, c, h, 1, 1) : r \in {0, 1}, c \in {{1}, {2}, {1, 2}},
                                   h \in {1, 2}}

Thresholds ==
    {NoThreshold, Threshold(0, 1), Threshold(3, 4), Threshold(1, 1),
     Threshold(2, 1), Threshold(4, 1), Threshold(MAX_DIST, 1)}

RECURSIVE Inventories(_)
\* the inventories of at most n objects
Inventories(n) ==
    IF n = 0 THEN {<<>>}
    ELSE {<<>>} \cup {Append(s, x) : s \in Inventories(n - 1), x \in FindPool}

InitFind ==
    /\ f_pc = "call"
    /\ f_obj \in FindPool
    /\ f_inv \in Inventories(MaxInv)
    /\ f_thr \in Thresholds
    /\ f_res = NoMatch
    /\ AsIdleB /\ AsIdleA /\ AsIdleS /\ AsIdleR /\ AsIdleC /\ AsIdleT
    /\ AsIdleO /\ AsIdleD /\ AsIdleL

\* a call of find_closest(obj, inventory, threshold)
FindClosestCall ==
    /\ f_pc = "call"
    /\ f_res' = FindClosest(f_obj, f_inv, f_thr)
    /\ f_pc' = "done"
    /\ UNCHANGED <<f_obj, f_inv, f_thr>>
    /\ UNCHANGED <<bvars, avars, svars, rvars, cvars, tvars, ovars, dvars, lvars>>

NextFind == FindClosestCall

SpecFind == InitFind /\ [][NextFind]_vars

(***************************************************************************)
(* Properties of find_closest                                              *)
(***************************************************************************)
Dists == [i \in 1..Len(f_inv) |-> ObjectDelta(f_obj, f_inv[i]).dist]

IsSmallest(i) == \A j \in 1..Len(f_inv) : Dists[i] <= Dists[j]

\* C7: find_closest returns None when the inventory is empty or when the
\* smallest distance over the inventory exceeds the threshold; otherwise it
\* returns the delta to the first inventory element of smallest distance;
\* with threshold None it never rejects a non-empty inventory.
C7_FindClosestIsFirstMinimum ==
    f_pc = "done" =>
        /\ f_inv = <<>> => f_res.none
        /\ f_inv # <<>> =>
             LET first == CHOOSE i \in 1..Len(f_inv) :
                             /\ IsSmallest(i)
                             /\ \A j \in 1..(i - 1) : ~IsSmallest(j)
                 rejected == /\ ~f_thr.none
                             /\ Dists[first] * f_thr.den > f_thr.num
             IN  /\ rejected => f_res.none
                 /\ ~rejected =>
                      /\ ~f_res.none
                      /\ f_res.idx = first
                      /\ f_res.dist = Dists[first]
                 /\ f_thr.none => ~f_res.none

\* find_closest has returned the first of two elements of equal smallest
\* distance, under a threshold that is a number
C7_Witness ==
    /\ f_pc = "done"
    /\ ~f_res.none /\ ~f_thr.none
    /\ f_res.idx = 1
    /\ Len(f_inv) >= 2
    /\ Dists[2] = Dists[1]
    /\ f_inv[2] # f_inv[1]

(***************************************************************************)
(* Objects as the Actions see them (arc/actions.py).  cell is the grid the *)
(* object holds, a sequence of rows; an object with a generator (gen)      *)
(* repeats cell V more times downwards and H more times to the right.      *)
(***************************************************************************)
AObject(row, col, color, cell, gen, V, H) ==
    [row |-> row, col |-> col, color |-> color, cell |-> cell,
     gen |-> gen, V |-> V, H |-> H]

GridH(g) == Len(g)

GridW(g) == Len(g[1])

\* the generator's expansion of cell: v copies downwards, h to the right
TileGrid(cell, v, h) ==
    [i \in 1..(GridH(cell) * v) |->
        [j \in 1..(GridW(cell) * h) |->
            cell[((i - 1) % GridH(cell)) + 1][((j - 1) % GridW(cell)) + 1]]]

\* Object.grid
Grid(o) == TileGrid(o.cell, o.V + 1, o.H + 1)

\* Object.shape
Shape(o) == <<GridH(o.cell) * (o.V + 1), GridW(o.cell) * (o.H + 1)>>

\* Object.size
Size(o) == Shape(o)[1] * Shape(o)[2]

\* Object.c_rank: the number of cells of each colour present
CRank(o) ==
    LET g == Grid(o)
        cells == (1..GridH(g)) \X (1..GridW(g))
        present == {g[x[1]][x[2]] : x \in cells}
    IN  [c \in present |-> Cardinality({x \in cells : g[x[1]][x[2]] = c})]

\* Object.__eq__: the anchors and the materialized grids match
ObjEq(a, b) == a.row = b.row /\ a.col = b.col /\ Grid(a) = Grid(b)

\* Object.from_grid(grid, anchor)
FromGridAt(g, row, col, color) == AObject(row, col, color, g, FALSE, 0, 0)

\* Object.copy(anchor): a point takes the colour of the anchor, a container
\* keeps its cells
CopyAnchor(o, row, col, color) ==
    IF GridH(o.cell) = 1 /\ GridW(o.cell) = 1
    THEN [o EXCEPT !.row = row, !.col = col, !.color = color,
                   !.cell = <<<<color>>>>]
    ELSE [o EXCEPT !.row = row, !.col = col, !.color = color]

\* Object.copy(codes): the codes drive the generator of an object that has
\* one (test_deformations: without a generator the copy equals the object)
CopyCodes(o, V, H) == IF o.gen THEN [o EXCEPT !.V = V, !.H = H] ELSE o

\* numpy.rot90: one quarter turn counter-clockwise
Rot90(g) ==
    [i \in 1..GridW(g) |-> [j \in 1..GridH(g) |-> g[j][GridW(g) + 1 - i]]]

\* numpy.flip(grid, axis)
FlipGrid(g, axis) ==
    IF axis = 0
    THEN [i \in 1..GridH(g) |-> g[GridH(g) + 1 - i]]
    ELSE [i \in 1..GridH(g) |-> [j \in 1..GridW(g) |-> g[i][GridW(g) + 1 - j]]]

RECURSIVE RotTimes(_, _)
\* the loop of lines 250-251
RotTimes(g, num) == IF num <= 0 THEN g ELSE RotTimes(Rot90(g), num - 1)

(***************************************************************************)
(* act of each Action class                                                *)
(***************************************************************************)
\* Action.act
ActionAct(o) == o

\* Paint.act
PaintAct(o, color) ==
    IF color = NULL_COLOR THEN o ELSE CopyAnchor(o, o.row, o.col, color)

\* Translate.act
TranslateAct(o, dr, dc) == CopyAnchor(o, o.row + dr, o.col + dc, o.color)

\* Vertical.act
VerticalAct(o, dr) == TranslateAct(o, dr, 0)

\* Horizontal.act moving along the rows
HorizontalActRows(o, dc) == TranslateAct(o, dc, 0)

\* Horizontal.act
HorizontalAct(o, dc) == TranslateAct(o, 0, dc)

\* Tile.act without the multiplication by the shape
TileActUnscaled(o, nr, nc) == TranslateAct(o, nr, nc)

\* Tile.act
TileAct(o, nr, nc) == TranslateAct(o, nr * Shape(o)[1], nc * Shape(o)[2])

\* VTile.act
VTileAct(o, nr) == TileAct(o, nr, 0)

\* HTile.act
HTileAct(o, nc) == TileAct(o, 0, nc)

\* Justify.act taking every axis for the row axis
JustifyActAlwaysRow(o, axis) == TranslateAct(o, -o.row, 0)

\* Justify.act
JustifyAct(o, axis) ==
    IF axis = 0 THEN TranslateAct(o, -o.row, 0) ELSE TranslateAct(o, 0, -o.col)

\* Zero.act
ZeroAct(o) == CopyAnchor(o, 0, 0, o.color)

\* Rotate.act
RotateAct(o, num) == FromGridAt(RotTimes(Grid(o), num), o.row, o.col, o.color)

\* Flip.act
FlipAct(o, horizontal) ==
    FromGridAt(FlipGrid(Grid(o), horizontal), o.row, o.col, o.color)

\* VFlip.act
VFlipAct(o) == FlipAct(o, 0)

\* HFlip.act
HFlipAct(o) == FlipAct(o, 1)

\* Orthogonal.act with the rotation applied before the reflection
OrthogonalActRotationFirst(o, reflection, rotation) ==
    LET turned == IF rotation > 0 THEN RotateAct(o, rotation) ELSE o
    IN  IF reflection = 1 THEN VFlipAct(turned)
        ELSE IF reflection = 2 THEN HFlipAct(turned)
        ELSE turned

\* Orthogonal.act
OrthogonalAct(o, reflection, rotation) ==
    LET reflected == IF reflection = 1 THEN VFlipAct(o)
                     ELSE IF reflection = 2 THEN HFlipAct(o)
                     ELSE o
    IN  IF rotation > 0 THEN RotateAct(reflected, rotation) ELSE reflected

\* Scale.act adding to the codes instead of replacing them
ScaleActAccumulating(o, vertical, horizontal) ==
    CopyCodes(o, IF vertical > 0 THEN o.V + vertical - 1 ELSE o.V,
                 IF horizontal > 0 THEN o.H + horizontal - 1 ELSE o.H)

\* Scale.act
ScaleAct(o, vertical, horizontal) ==
    CopyCodes(o, IF vertical > 0 THEN vertical - 1 ELSE o.V,
                 IF horizontal > 0 THEN horizontal - 1 ELSE o.H)

\* VScale.act
VScaleAct(o, value) == ScaleAct(o, value, 0)

\* HScale.act
HScaleAct(o, value) == ScaleAct(o, 0, value)

(***************************************************************************)
(* The action table (action_map) and the call A.act(object, *args).  A     *)
(* call with more or fewer arguments than act takes raises TypeError.      *)
(***************************************************************************)
\* the codes of the table whose act takes integers and is not a Compound
ActionCodes ==
    {"", "c", "t", "v", "h", "T", "V", "H", "j", "z", "o", "r", "+", "|",
     "_", "s", "f", "p"}

Done(o) == [ok |-> TRUE, obj |-> o]

NoObject == AObject(0, 0, 0, <<<<0>>>>, FALSE, 0, 0)

Raised == [ok |-> FALSE, obj |-> NoObject]

\* the numbers of arguments the signature of act accepts after the object
Accepts(code, n) ==
    CASE code = "" -> TRUE
      [] code \in {"c", "v", "h", "V", "H"} -> n <= 1
      [] code \in {"t", "T", "o"} -> n <= 2
      [] code \in {"j", "r", "+", "f", "p"} -> n = 1
      [] code \in {"z", "|", "_"} -> n = 0
      [] code = "s" -> n = 2

\* args[i], or the default of the signature
Arg(args, i, default) == IF Len(args) >= i THEN args[i] ELSE default

\* action_map[code].act(o, *args)
Act(code, o, args) ==
    IF ~Accepts(code, Len(args)) THEN Raised
    ELSE Done(
        CASE code = ""  -> ActionAct(o)
          [] code = "c" -> PaintAct(o, Arg(args, 1, NULL_COLOR))
          [] code = "t" -> TranslateAct(o, Arg(args, 1, 0), Arg(args, 2, 0))
          [] code = "v" -> VerticalAct(o, Arg(args, 1, 0))
          [] code = "h" -> HorizontalAct(o, Arg(args, 1, 0))
          [] code = "T" -> TileAct(o, Arg(args, 1, 0), Arg(args, 2, 0))
          [] code = "V" -> VTileAct(o, Arg(args, 1, 1))
          [] code = "H" -> HTileAct(o, Arg(args, 1, 1))
          [] code = "j" -> JustifyAct(o, args[1])
          [] code = "z" -> ZeroAct(o)
          [] code = "o" -> OrthogonalAct(o, Arg(args, 1, 0), Arg(args, 2, 0))
          [] code = "r" -> RotateAct(o, args[1])
          [] code = "+" -> FlipAct(o, args[1])
          [] code = "|" -> HFlipAct(o)
          [] code = "_" -> VFlipAct(o)
          [] code = "s" -> ScaleAct(o, args[1], args[2])
          [] code = "f" -> VScaleAct(o, args[1])
          [] code = "p" -> HScaleAct(o, args[1]))

(***************************************************************************)
(* inv of each Action class.  The result is the tuple inv returns, or      *)
(* Threw when inv raises.                                                  *)
(***************************************************************************)
Args(t) == [ok |-> TRUE, args |-> t]

Threw == [ok |-> FALSE, args |-> <<>>]

\* Action.inv
ActionInv(left, right) == Args(<<>>)

\* Paint.inv
PaintInv(left, right) ==
    LET c1 == DOMAIN CRank(left)
        c2 == DOMAIN CRank(right)
    IN  IF Cardinality(c1) = 1 /\ Cardinality(c2) = 1 /\ c1 # c2
        THEN Args(<<CHOOSE c \in c2 : TRUE>>)
        ELSE Args(<<>>)

\* Translate.inv
TranslateInv(left, right) ==
    IF left.row = right.row /\ left.col = right.col
    THEN Args(<<>>)
    ELSE Args(<<right.row - left.row, right.col - left.col>>)

\* o_arg with the values of VFlip and HFlip exchanged
OArgSwapped(code) ==
    CASE code = "_" -> 2
      [] code = "|" -> 1
      [] OTHER -> 0

\* the class attribute o_arg
OArg(code) ==
    CASE code = "_" -> 1
      [] code = "|" -> 2
      [] OTHER -> 0

RECURSIVE OrthogonalSearch(_, _, _, _)
\* the loops of lines 236-242 from reflections[i] on
OrthogonalSearch(reflections, i, left, right) ==
    IF i > Len(reflections) THEN Args(<<>>)
    ELSE LET reflection == reflections[i]
             reflected == Act(reflection, left, <<>>)
         IN  IF ~reflected.ok THEN Threw
             ELSE IF ObjEq(reflected.obj, right)
             THEN Args(<<OArg(reflection), 0>>)
             ELSE IF \E n \in 1..3 : ObjEq(RotateAct(reflected.obj, n), right)
             THEN Args(<<OArg(reflection),
                         CHOOSE n \in 1..3 :
                            /\ ObjEq(RotateAct(reflected.obj, n), right)
                            /\ \A k \in 1..(n - 1) :
                                  ~ObjEq(RotateAct(reflected.obj, k), right)>>)
             ELSE OrthogonalSearch(reflections, i + 1, left, right)

\* Orthogonal.inv, called on the class registered under code cls
OrthogonalInv(cls, left, right) ==
    IF Size(right) = 1 \/ Size(left) # Size(right) \/ CRank(left) # CRank(right)
    THEN Args(<<>>)
    ELSE LET l == ZeroAct(left)
             r == ZeroAct(right)
         IN  IF ObjEq(l, r) THEN Args(<<>>)
             ELSE OrthogonalSearch(<<cls, "_", "|">>, 1, l, r)

\* lines 299-307 for one axis: <<>> for incommensurate shapes
ScaleAxis(left, right, axis, code_value) ==
    IF Shape(left)[axis] = Shape(right)[axis] THEN <<0>>
    ELSE LET cell == Shape(left)[axis] \div (code_value + 1)
         IN  IF Shape(right)[axis] % cell # 0 THEN <<>>
             ELSE <<Shape(right)[axis] \div cell>>

\* Scale.inv
ScaleInv(left, right) ==
    IF ~left.gen /\ ~right.gen THEN Args(<<>>)
    ELSE LET v == ScaleAxis(left, right, 1, left.V)
             h == ScaleAxis(left, right, 2, left.H)
         IN  IF v = <<>> \/ h = <<>> THEN Args(<<>>)
             ELSE IF v \o h = <<0, 0>> THEN Args(<<>>)
             ELSE Args(v \o h)

\* action_map[code].inv(left, right)
Inv(code, left, right) ==
    CASE code = "" -> ActionInv(left, right)
      [] code = "c" -> PaintInv(left, right)
      [] code \in {"t", "v", "h", "T", "V", "H", "j", "z"} ->
            TranslateInv(left, right)
      [] code \in {"o", "r", "+", "|", "_"} -> OrthogonalInv(code, left, right)
      [] code \in {"s", "f", "p"} -> ScaleInv(left, right)

(***************************************************************************)
(* rearg of each Action class: the arguments of the class for arguments of *)
(* the more general Action, or ReargNone where rearg returns None.         *)
(***************************************************************************)
ReargNone == [ok |-> FALSE, args |-> <<>>]

\* Action.rearg
ActionRearg(o, args) == Args(args)

\* Paint.rearg
PaintRearg(o, color) == Args(<<color>>)

\* Translate.rearg
TranslateRearg(o, dr, dc) == Args(<<dr, dc>>)

\* Vertical.rearg
VerticalRearg(o, dr, dc) == Args(<<dr>>)

\* Horizontal.rearg
HorizontalRearg(o, dr, dc) == Args(<<dc>>)

\* Tile.rearg
TileRearg(o, dr, dc) ==
    IF dr % Shape(o)[1] # 0 \/ dc % Shape(o)[2] # 0 THEN ReargNone
    ELSE Args(<<dr \div Shape(o)[1], dc \div Shape(o)[2]>>)

\* VTile.rearg
VTileRearg(o, dr, dc) ==
    LET tile_args == TileRearg(o, dr, dc)
    IN  IF ~tile_args.ok THEN ReargNone ELSE Args(<<tile_args.args[1]>>)

\* HTile.rearg
HTileRearg(o, dr, dc) ==
    LET tile_args == TileRearg(o, dr, dc)
    IN  IF ~tile_args.ok THEN ReargNone ELSE Args(<<tile_args.args[2]>>)

\* Justify.rearg
JustifyRearg(o, dr, dc) ==
    IF dr = -o.row THEN Args(<<0>>)
    ELSE IF dc = -o.col THEN Args(<<1>>)
    ELSE ReargNone

\* Zero.rearg
ZeroRearg(o, dr, dc) ==
    IF dr = -o.row /\ dc = -o.col THEN Args(<<>>) ELSE ReargNone

\* action_map[code].rearg(o, *args), for args that the signature accepts
Rearg(code, o, args) ==
    CASE code = "c" -> PaintRearg(o, Arg(args, 1, 0))
      [] code = "t" -> TranslateRearg(o, Arg(args, 1, 0), Arg(args, 2, 0))
      [] code = "v" -> VerticalRearg(o, Arg(args, 1, 0), Arg(args, 2, 0))
      [] code = "h" -> HorizontalRearg(o, Arg(args, 1, 0), Arg(args, 2, 0))
      [] code = "T" -> TileRearg(o, args[1], args[2])
      [] code = "V" -> VTileRearg(o, Arg(args, 1, 0), Arg(args, 2, 0))
      [] code = "H" -> HTileRearg(o, Arg(args, 1, 0), Arg(args, 2, 0))
      [] code = "j" -> JustifyRearg(o, Arg(args, 1, 0), Arg(args, 2, 0))
      [] code = "z" -> ZeroRearg(o, Arg(args, 1, 0), Arg(args, 2, 0))
      [] OTHER -> ActionRearg(o, args)


(***************************************************************************)
(* The objects and the arguments the Actions are applied to                *)
(***************************************************************************)
Colors == {1, 2}

Anchors == {<<0, 0>>, <<0, 1>>, <<1, 2>>}

\* the grids of h rows and w columns
Grids(h, w) == [1..h -> [1..w -> Colors]]

\* the shapes of at most MaxCells cells
ActShapes == {x \in (1..MaxCells) \X (1..MaxCells) : x[1] * x[2] <= MaxCells}

ActGrids == UNION {Grids(x[1], x[2]) : x \in ActShapes}

ActObjects ==
    {FromGridAt(g, a[1], a[2], NULL_COLOR) : g \in ActGrids, a \in Anchors}
      \cup {AObject(a[1], a[2], c, <<<<c>>>>, TRUE, V, H) :
              a \in Anchors, c \in Colors, V \in 0..MaxCode, H \in 0..MaxCode}

Offsets == {-1, 0, 2}

\* the argument tuples that are valid for act of the class under code
ValidArgs(code) ==
    CASE code \in {"", "z", "|", "_"} -> {<<>>}
      [] code = "c" -> {<<c>> : c \in Colors \cup {NULL_COLOR}}
      [] code \in {"t", "T"} -> {<<x, y>> : x \in Offsets, y \in Offsets}
      [] code \in {"v", "h"} -> {<<x>> : x \in Offsets}
      [] code \in {"V", "H"} -> {<<>>} \cup {<<x>> : x \in Offsets}
      [] code \in {"j", "+"} -> {<<0>>, <<1>>}
      [] code = "o" -> {<<x, y>> : x \in 0..2, y \in 0..3}
      [] code = "r" -> {<<x>> : x \in 0..3}
      [] code = "s" -> {<<x, y>> : x \in 0..3, y \in 0..3}
      [] code \in {"f", "p"} -> {<<x>> : x \in 0..3}

InitAct ==
    /\ a_pc = "in"
    /\ a_obj \in ActObjects
    /\ a_code \in ActionCodes
    /\ a_args \in ValidArgs(a_code)
    /\ a_out = Raised
    /\ a_inv = Threw
    /\ a_back = Raised
    /\ AsIdleB /\ AsIdleF /\ AsIdleS /\ AsIdleR /\ AsIdleC /\ AsIdleT
    /\ AsIdleO /\ AsIdleD /\ AsIdleL

\* r = A.act(o, *args)
DoAct ==
    /\ a_pc = "in"
    /\ a_out' = Act(a_code, a_obj, a_args)
    /\ a_pc' = "acted"
    /\ UNCHANGED <<a_obj, a_code, a_args, a_inv, a_back>>
    /\ UNCHANGED <<bvars, fvars, svars, rvars, cvars, tvars, ovars, dvars, lvars>>

\* A.act(o, *A.inv(o, r))
DoInvAct ==
    /\ a_pc = "acted"
    /\ a_out.ok
    /\ LET found == Inv(a_code, a_obj, a_out.obj)
       IN  /\ a_inv' = found
           /\ a_back' = IF found.ok
                        THEN Act(a_code, a_obj, found.args) ELSE Raised
    /\ a_pc' = "done"
    /\ UNCHANGED <<a_obj, a_code, a_args, a_out>>
    /\ UNCHANGED <<bvars, fvars, svars, rvars, cvars, tvars, ovars, dvars, lvars>>

NextAct == DoAct \/ DoInvAct

SpecAct == InitAct /\ [][NextAct]_vars

(***************************************************************************)
(* Properties of the Actions                                               *)
(***************************************************************************)
\* the inverse-action law for the call recorded in the state
InverseLaw ==
    /\ a_inv.ok
    /\ \/ a_inv.args = <<>>
       \/ a_back.ok /\ ObjEq(a_back.obj, a_out.obj)

\* C8: for every registered Action A, every Object o and every valid
\* argument tuple, with r = A.act(o, *args), either A.inv(o, r) is the empty
\* tuple or A.act(o, *A.inv(o, r)) is well defined and equals r.
C8_InverseLawEveryAction == a_pc = "done" => InverseLaw

\* the seven non-identity symmetries of the square, written on the indices
\* of the grid: quarter turns counter-clockwise, flips, diagonal composites
Symmetry(k, g) ==
    LET h == GridH(g)
        w == GridW(g)
    IN  CASE k = 1 -> [i \in 1..w |-> [j \in 1..h |-> g[j][w + 1 - i]]]
          [] k = 2 -> [i \in 1..h |-> [j \in 1..w |-> g[h + 1 - i][w + 1 - j]]]
          [] k = 3 -> [i \in 1..w |-> [j \in 1..h |-> g[h + 1 - j][i]]]
          [] k = 4 -> [i \in 1..h |-> [j \in 1..w |-> g[h + 1 - i][j]]]
          [] k = 5 -> [i \in 1..h |-> [j \in 1..w |-> g[i][w + 1 - j]]]
          [] k = 6 -> [i \in 1..w |-> [j \in 1..h |-> g[j][i]]]
          [] k = 7 -> [i \in 1..w |-> [j \in 1..h |-> g[h + 1 - j][w + 1 - i]]]

\* the symmetry that Orthogonal(reflection, rotation) stands for: each of the
\* seven is named by at least one pair of arguments
ElementOf(args) ==
    CASE args = <<0, 1>> -> 1
      [] args = <<0, 2>> -> 2
      [] args = <<0, 3>> -> 3
      [] args = <<1, 0>> -> 4
      [] args = <<2, 0>> -> 5
      [] args = <<1, 1>> -> 7
      [] args = <<1, 2>> -> 5
      [] args = <<1, 3>> -> 6
      [] args = <<2, 1>> -> 6
      [] args = <<2, 2>> -> 4
      [] args = <<2, 3>> -> 7

\* C9: for every object obj of more than one cell and each of the seven
\* non-identity symmetries g of the square, with g(obj) the object at the
\* anchor of obj whose grid is the image of the grid of obj,
\* Orthogonal.inv(obj, g(obj)) returns arguments and Orthogonal.act applied to
\* obj with them equals g(obj).
C9_OrthogonalInvReproduces ==
    (a_pc = "done" /\ a_code = "o" /\ Size(a_obj) > 1 /\ a_args # <<0, 0>>) =>
        /\ Grid(a_out.obj) = Symmetry(ElementOf(a_args), Grid(a_obj))
        /\ a_out.obj.row = a_obj.row /\ a_out.obj.col = a_obj.col
        /\ a_inv.ok /\ a_back.ok /\ ObjEq(a_back.obj, a_out.obj)

\* an object whose eight images are all different was transformed, and inv
\* found arguments other than the ones that were used
C9_Witness ==
    /\ a_pc = "done" /\ a_code = "o" /\ Size(a_obj) > 1
    /\ Cardinality({Symmetry(k, Grid(a_obj)) : k \in 1..7} \cup {Grid(a_obj)}) = 8
    /\ Grid(a_out.obj) = Symmetry(7, Grid(a_obj))
    /\ a_inv.args # <<>> /\ a_inv.args # a_args
    /\ ObjEq(a_back.obj, a_out.obj)

\* rotation quarter turns counter-clockwise, in closed form
QuarterTurns(g, rotation) == IF rotation = 0 THEN g ELSE Symmetry(rotation, g)

\* the flip selected by reflection: 0 none, 1 vertical, 2 horizontal
SelectedFlip(g, reflection) ==
    IF reflection = 0 THEN g ELSE Symmetry(reflection + 3, g)

\* C10: Orthogonal.act(o, reflection, rotation) is the flip selected by
\* reflection followed by rotation quarter turns counter-clockwise, at the
\* anchor of o; rot90 of the grid flipped on axis 1 is Orthogonal.act(o, 1, 1)
\* and rot90 of the grid flipped on axis 0 is Orthogonal.act(o, 1, 3).
C10_OrthogonalActComposition ==
    (a_pc # "in" /\ a_code = "o") =>
        /\ a_out.ok
        /\ a_out.obj.row = a_obj.row /\ a_out.obj.col = a_obj.col
        /\ Grid(a_out.obj) =
              QuarterTurns(SelectedFlip(Grid(a_obj), a_args[1]), a_args[2])
        /\ a_args = <<1, 1>> =>
              Grid(a_out.obj) = FlipGrid(Rot90(Grid(a_obj)), 1)
        /\ a_args = <<1, 3>> =>
              Grid(a_out.obj) = FlipGrid(Rot90(Grid(a_obj)), 0)

\* Orthogonal.act(o, 1, 1) was applied to a grid on which the order of the
\* flip and the rotation matters
C10_Witness ==
    /\ a_pc = "acted" /\ a_code = "o" /\ a_args = <<1, 1>>
    /\ Grid(a_out.obj) = FlipGrid(Rot90(Grid(a_obj)), 1)
    /\ Grid(a_out.obj) # FlipGrid(Rot90(Grid(a_obj)), 0)

(***************************************************************************)
(* Chains of Action calls: each call acts on the result of the one before. *)
(***************************************************************************)
\* Resize.act
ResizeAct(o, secondary) ==
    LET first == IF Shape(o)[1] # Shape(secondary)[1]
                 THEN ScaleAct(o, Shape(secondary)[1], 0) ELSE o
    IN  IF Shape(o)[2] # Shape(secondary)[2]
        THEN ScaleAct(first, 0, Shape(secondary)[2]) ELSE first

\* one call: the code, the integer arguments, the secondary of a Pairwise
Call(code, args) == [code |-> code, args |-> args, sec |-> NoObject]

PairCall(code, secondary) == [code |-> code, args |-> <<>>, sec |-> secondary]

\* action_map[call.code].act(o, ...)
Run(call, o) ==
    IF call.code = "S" THEN Done(ResizeAct(o, call.sec))
    ELSE Act(call.code, o, call.args)

\* the objects the chains start from: points, points with a generator, a
\* generator over a cell of two rows, containers
ChainObjects ==
    {AObject(a[1], a[2], 1, <<<<1>>>>, FALSE, 0, 0) : a \in Anchors}
      \cup {AObject(1, 2, 1, <<<<1>>>>, TRUE, V, H) :
              V \in 0..MaxCode, H \in 0..MaxCode}
      \cup {AObject(1, 2, NULL_COLOR, <<<<1>>, <<2>>>>, TRUE, V, 0) : V \in 0..1}
      \cup {FromGridAt(g, a[1], a[2], NULL_COLOR) :
              g \in {<<<<1, 2>>>>, <<<<1>>, <<2>>>>, <<<<1, 2>>, <<2, 1>>>>},
              a \in Anchors}

\* the secondaries of Resize: shapes (1, 1), (2, 2), (3, 1)
Secondaries ==
    {AObject(0, 0, 1, <<<<1>>>>, FALSE, 0, 0),
     AObject(2, 1, 1, <<<<1>>>>, TRUE, 1, 1),
     AObject(0, 0, 2, <<<<2>>>>, TRUE, 2, 0)}

TileCounts == {-1, 2}

ScaleValues == {0, 1, 3}

Families == {"translate", "tile", "justify", "scale"}

\* the calls of each family
FamilyCalls(fam) ==
    CASE fam = "translate" ->
            {Call("v", <<-1>>), Call("v", <<1>>), Call("h", <<-1>>),
             Call("h", <<1>>), Call("t", <<2, -1>>), Call("t", <<-2, 1>>)}
      [] fam = "tile" ->
            {Call("T", <<x, y>>) : x \in TileCounts, y \in TileCounts}
              \cup {Call(c, <<x>>) : c \in {"V", "H"}, x \in TileCounts}
              \cup {Call(c, <<>>) : c \in {"V", "H"}}
      [] fam = "justify" ->
            {Call("j", <<0>>), Call("j", <<1>>), Call("z", <<>>)}
      [] fam = "scale" ->
            {Call("s", <<x, y>>) : x \in ScaleValues, y \in ScaleValues}
              \cup {Call(c, <<x>>) : c \in {"f", "p"}, x \in ScaleValues}
              \cup {PairCall("S", b) : b \in Secondaries}

\* the longest chain of each family
FamilyLen(fam) == IF fam = "translate" THEN MaxSteps ELSE MaxChain

InitSeq ==
    /\ s_pc = "run"
    /\ s_fam \in Families
    /\ s_obj \in ChainObjects
    /\ s_calls = <<>>
    /\ s_cur = s_obj
    /\ AsIdleB /\ AsIdleF /\ AsIdleA /\ AsIdleR /\ AsIdleC /\ AsIdleT
    /\ AsIdleO /\ AsIdleD /\ AsIdleL

\* s_cur = A.act(s_cur, ...)
Apply(call) ==
    /\ s_pc = "run"
    /\ Len(s_calls) < FamilyLen(s_fam)
    /\ call \in FamilyCalls(s_fam)
    /\ Run(call, s_cur).ok
    /\ s_cur' = Run(call, s_cur).obj
    /\ s_calls' = Append(s_calls, call)
    /\ UNCHANGED <<s_pc, s_fam, s_obj>>
    /\ UNCHANGED <<bvars, fvars, avars, rvars, cvars, tvars, ovars, dvars, lvars>>

NextSeq == \E fam \in Families : \E call \in FamilyCalls(fam) : Apply(call)

SpecSeq == InitSeq /\ [][NextSeq]_vars

\* the codes of the calls made, in order
Codes(chain) == [i \in 1..Len(chain) |-> chain[i].code]

\* s_obj moved to another anchor
MovedTo(o, row, col) == [o EXCEPT !.row = row, !.col = col]

(***************************************************************************)
(* Properties of chains of Action calls                                    *)
(***************************************************************************)
\* C11: for every object P, Zero.act(P) equals Justify.act(Justify.act(P, 0),
\* 1) and the two Justify calls made in the other order; the result is P
\* anchored at (0, 0).
C11_ZeroIsJustifyTwice ==
    /\ s_calls \in {<<Call("j", <<0>>), Call("j", <<1>>)>>,
                    <<Call("j", <<1>>), Call("j", <<0>>)>>} =>
          /\ ObjEq(s_cur, ZeroAct(s_obj))
          /\ s_cur = MovedTo(s_obj, 0, 0)
    /\ s_calls = <<Call("z", <<>>)>> => s_cur = MovedTo(s_obj, 0, 0)

\* both Justify calls were needed
C11_Witness ==
    /\ s_calls = <<Call("j", <<0>>), Call("j", <<1>>)>>
    /\ s_obj.row # 0 /\ s_obj.col # 0 /\ Size(s_obj) > 1
    /\ ObjEq(s_cur, ZeroAct(s_obj))

RECURSIVE RowSum(_)
\* the sum of the row offsets of a chain of Translate / Vertical / Horizontal
RowSum(chain) ==
    IF chain = <<>> THEN 0
    ELSE LET c == Head(chain)
         IN  (CASE c.code = "v" -> c.args[1]
                [] c.code = "t" -> c.args[1]
                [] OTHER -> 0) + RowSum(Tail(chain))

RECURSIVE ColSum(_)
\* the sum of the column offsets
ColSum(chain) ==
    IF chain = <<>> THEN 0
    ELSE LET c == Head(chain)
         IN  (CASE c.code = "h" -> c.args[1]
                [] c.code = "t" -> c.args[2]
                [] OTHER -> 0) + ColSum(Tail(chain))

\* C12: translation is additive on the anchor: after any chain of Translate,
\* Vertical and Horizontal calls the object is the start object moved by the
\* sums of the row and of the column offsets; hence Translate(-dr, -dc) undoes
\* Translate(dr, dc), Vertical and Horizontal steps commute, and a chain whose
\* offsets sum to zero on both axes gives an object equal to the start object.
C12_TranslationAdditive ==
    s_fam = "translate" =>
        /\ s_cur = MovedTo(s_obj, s_obj.row + RowSum(s_calls),
                                  s_obj.col + ColSum(s_calls))
        /\ (RowSum(s_calls) = 0 /\ ColSum(s_calls) = 0) => ObjEq(s_cur, s_obj)
        /\ (Len(s_calls) = 2 /\ Codes(s_calls) = <<"v", "h">>) =>
              s_cur = VerticalAct(HorizontalAct(s_obj, s_calls[2].args[1]),
                                  s_calls[1].args[1])
        /\ s_calls \in {<<Call("t", <<2, -1>>), Call("t", <<-2, 1>>)>>,
                        <<Call("t", <<-2, 1>>), Call("t", <<2, -1>>)>>} =>
              ObjEq(s_cur, s_obj)

\* up, down, left, right
C12_Witness ==
    /\ s_calls = <<Call("v", <<-1>>), Call("v", <<1>>),
                   Call("h", <<-1>>), Call("h", <<1>>)>>
    /\ ObjEq(s_cur, s_obj)

\* C13: for every container group and integers nr, nc, Tile.act(group, nr, nc)
\* equals VTile.act(HTile.act(group, nc), nr): the anchor moves by nr times
\* the height and nc times the width, and VTile / HTile without a count move
\* by one height / width.
C13_TileIsVTileOfHTile ==
    /\ (Len(s_calls) = 2 /\ Codes(s_calls) = <<"H", "V">>) =>
          LET nc == Arg(s_calls[1].args, 1, 1)
              nr == Arg(s_calls[2].args, 1, 1)
          IN  /\ ObjEq(s_cur, TileAct(s_obj, nr, nc))
              /\ s_cur = MovedTo(s_obj, s_obj.row + nr * Shape(s_obj)[1],
                                        s_obj.col + nc * Shape(s_obj)[2])
    /\ (Len(s_calls) = 1 /\ s_calls[1].code = "T") =>
          s_cur = MovedTo(s_obj,
                          s_obj.row + s_calls[1].args[1] * Shape(s_obj)[1],
                          s_obj.col + s_calls[1].args[2] * Shape(s_obj)[2])
    /\ s_calls = <<Call("V", <<>>)>> =>
          s_cur = MovedTo(s_obj, s_obj.row + Shape(s_obj)[1], s_obj.col)
    /\ s_calls = <<Call("H", <<>>)>> =>
          s_cur = MovedTo(s_obj, s_obj.row, s_obj.col + Shape(s_obj)[2])

\* Tile.act(group, 1, 1) == VTile.act(HTile.act(group)) on a container of
\* two rows and two columns
C13_Witness ==
    /\ s_calls = <<Call("H", <<>>), Call("V", <<>>)>>
    /\ ~s_obj.gen /\ Shape(s_obj) = <<2, 2>>
    /\ ObjEq(s_cur, TileAct(s_obj, 1, 1))
    /\ s_cur.row = s_obj.row + 2 /\ s_cur.col = s_obj.col + 2

\* the vertical argument of a Scale / VScale / HScale call
VerticalArg(c) == IF c.code = "p" THEN 0 ELSE c.args[1]

\* the horizontal argument of a Scale / VScale / HScale call
HorizontalArg(c) ==
    CASE c.code = "s" -> c.args[2]
      [] c.code = "p" -> c.args[1]
      [] OTHER -> 0

RECURSIVE LastV(_, _)
\* the code "V" after a chain: the last positive vertical argument, less one
LastV(chain, start) ==
    IF chain = <<>> THEN start
    ELSE LET c == chain[Len(chain)]
         IN  IF VerticalArg(c) > 0 THEN VerticalArg(c) - 1
             ELSE LastV(SubSeq(chain, 1, Len(chain) - 1), start)

RECURSIVE LastH(_, _)
\* the code "H" after a chain
LastH(chain, start) ==
    IF chain = <<>> THEN start
    ELSE LET c == chain[Len(chain)]
         IN  IF HorizontalArg(c) > 0 THEN HorizontalArg(c) - 1
             ELSE LastH(SubSeq(chain, 1, Len(chain) - 1), start)

C15_ResizeMatchesShape ==
    (Len(s_calls) = 1 /\ s_calls[1].code = "S") =>
        /\ Shape(s_cur) = Shape(s_calls[1].sec)
        /\ Shape(s_obj)[1] = Shape(s_calls[1].sec)[1] => s_cur.V = s_obj.V
        /\ Shape(s_obj)[2] = Shape(s_calls[1].sec)[2] => s_cur.H = s_obj.H

(***************************************************************************)
(* rearg followed by act: the arguments of Translate are handed to rearg   *)
(* of a specialised translation, and what rearg returns to its act.        *)
(***************************************************************************)
TranslationCodes == {"t", "v", "h", "T", "V", "H", "j", "z"}

Displacements == {-2, -1, 0, 1, 2}

InitRearg ==
    /\ r_pc = "in"
    /\ r_obj \in ChainObjects
    /\ r_code \in TranslationCodes
    /\ r_dr \in Displacements
    /\ r_dc \in Displacements
    /\ r_re = ReargNone
    /\ r_out = Raised
    /\ AsIdleB /\ AsIdleF /\ AsIdleA /\ AsIdleS /\ AsIdleC /\ AsIdleT
    /\ AsIdleO /\ AsIdleD /\ AsIdleL

\* A.rearg(o, dr, dc)
DoRearg ==
    /\ r_pc = "in"
    /\ r_re' = Rearg(r_code, r_obj, <<r_dr, r_dc>>)
    /\ r_pc' = "reargd"
    /\ UNCHANGED <<r_obj, r_code, r_dr, r_dc, r_out>>
    /\ UNCHANGED <<bvars, fvars, avars, svars, cvars, tvars, ovars, dvars, lvars>>

\* A.act(o, *A.rearg(o, dr, dc)) when rearg did not return None
DoReargAct ==
    /\ r_pc = "reargd"
    /\ r_re.ok
    /\ r_out' = Act(r_code, r_obj, r_re.args)
    /\ r_pc' = "done"
    /\ UNCHANGED <<r_obj, r_code, r_dr, r_dc, r_re>>
    /\ UNCHANGED <<bvars, fvars, avars, svars, cvars, tvars, ovars, dvars, lvars>>

NextRearg == DoRearg \/ DoReargAct

SpecRearg == InitRearg /\ [][NextRearg]_vars

\* the displacement (dr, dc) cannot be expressed by the Action under code
Inexpressible(code, o, dr, dc) ==
    CASE code = "v" -> dc # 0
      [] code = "h" -> dr # 0
      [] code \in {"T", "V", "H"} ->
            dr % Shape(o)[1] # 0 \/ dc % Shape(o)[2] # 0
      [] code = "j" -> ~(\/ dr = -o.row /\ dc = 0
                         \/ dc = -o.col /\ dr = 0)
      [] code = "z" -> <<dr, dc>> # <<-o.row, -o.col>>
      [] OTHER -> FALSE

\* C16: rearg of a specialised translation returns None whenever (dr, dc)
\* cannot be expressed by that Action (Vertical: dc != 0, Horizontal:
\* dr != 0, Tile / VTile / HTile: dr or dc not a multiple of the height /
\* width, Justify: the displacement does not zero exactly one axis, Zero:
\* (dr, dc) != (-row, -col)); whenever rearg returns arguments, act with them
\* moves the object by exactly (dr, dc).
C16_ReargNoneOrExact ==
    /\ r_pc \in {"reargd", "done"} =>
          (Inexpressible(r_code, r_obj, r_dr, r_dc) => ~r_re.ok)
    /\ r_pc = "done" =>
          /\ r_out.ok
          /\ r_out.obj = MovedTo(r_obj, r_obj.row + r_dr, r_obj.col + r_dc)

(***************************************************************************)
(* The comparisons applied to a pair of objects                            *)
(***************************************************************************)
CmpPool ==
    {CmpObject(r, c, k, h, 1, 1) :
        r \in 0..2, c \in 0..2, k \in {{1}, {2}, {1, 2}}, h \in {1, 2}}

InitCmp ==
    /\ c_pc = "in"
    /\ c_left \in CmpPool
    /\ c_right \in CmpPool
    /\ c_res = <<>>
    /\ AsIdleB /\ AsIdleF /\ AsIdleA /\ AsIdleS /\ AsIdleR /\ AsIdleT
    /\ AsIdleO /\ AsIdleD /\ AsIdleL

\* comparison(left, right) for each comparison of default_comparisons
Compare ==
    /\ c_pc = "in"
    /\ c_res' = DefaultComparisons(c_left, c_right)
    /\ c_pc' = "done"
    /\ UNCHANGED <<c_left, c_right>>
    /\ UNCHANGED <<bvars, fvars, avars, svars, rvars, tvars, ovars, dvars, lvars>>

NextCmp == Compare

SpecCmp == InitCmp /\ [][NextCmp]_vars

\* the results of get_color_diff and get_translation for the pair
ColorDiff == c_res[2]

Translation == c_res[3]

SameLoc == c_left.row = c_right.row /\ c_left.col = c_right.col

AtOrigin(o) == o.row = 0 /\ o.col = 0

\* the entry of a transform under key, 0 when there is none
Entry(transform, key) ==
    IF key \in DOMAIN transform THEN transform[key] ELSE 0

NotSpecial ==
    /\ ~SameLoc
    /\ ~AtOrigin(c_right)
    /\ ~(c_left.row # c_right.row /\ c_left.col = c_right.col /\ c_right.row = 0)
    /\ ~(c_left.col # c_right.col /\ c_left.row = c_right.row /\ c_right.col = 0)

\* C18: for every displacement that is not one of the zero / justify special
\* cases get_translation charges exactly 2 and records offsets under "w"
\* (row) and / or "s" (column) such that left translated by them is at the
\* location of right, also when both the row and the column differ.
C18_OffsetsReachRight ==
    (c_pc = "done" /\ NotSpecial) =>
        /\ Translation.dist = 2
        /\ DOMAIN Translation.transform \subseteq {"w", "s"}
        /\ c_left.row + Entry(Translation.transform, "w") = c_right.row
        /\ c_left.col + Entry(Translation.transform, "s") = c_right.col

Unknown == -1

\* the number of dot children up to which differing children are kept
DotLimit == 5

MaxObjs == 2

\* the registry of scalar properties, and the action codes compared
PropNames == {"row", "color"}

TplCodes == {"V"}

Keys == PropNames \cup TplCodes

\* cst.DEFAULT[prop]; 0 for a code
DefaultOf(key) == IF key = "color" THEN NULL_COLOR ELSE 0

\* an Object as the template reads it: properties, codes, category, children
TObject(row, color, V, dot, children) ==
    [row |-> row, color |-> color, V |-> V, dot |-> dot, children |-> children]

NoProperty == "None"

ObjectPath(base, property) == [base |-> base, property |-> property]

\* all_equal
AllEqual(group) == \A i, j \in DOMAIN group : group[i] = group[j]

\* Template.compare_properties
CompareProperties(objs) ==
    LET cts(key) == {objs[i][key] : i \in DOMAIN objs}
        varying == {key \in Keys : Cardinality(cts(key)) # 1}
        stored == {key \in Keys :
                      /\ Cardinality(cts(key)) = 1
                      /\ (CHOOSE val \in cts(key) : TRUE) # DefaultOf(key)}
    IN  [struc |->
            [props |-> [key \in varying \cup stored |->
                           IF key \in varying THEN Unknown
                           ELSE CHOOSE val \in cts(key) : TRUE],
             children |-> <<>>],
         vars |-> varying]

\* the end of recursive_compare with the variables of the children kept when
\* the child list is collapsed
ReconcileKeepingVariables(structure, variables, child_structures, child_variables, dot_ct, child_match, base) ==
    IF child_structures # <<>> \/ child_variables # {}
    THEN IF dot_ct <= DotLimit \/ child_match
         THEN [structure |-> [structure EXCEPT !.children = child_structures],
               variables |-> variables \cup child_variables]
         ELSE [structure |-> structure,
               variables |-> variables \cup child_variables
                                \cup {ObjectPath(base, NoProperty)}]
    ELSE [structure |-> structure, variables |-> variables]

\* the end of recursive_compare keeping the children only when both tests pass
ReconcileBothRequired(structure, variables, child_structures, child_variables, dot_ct, child_match, base) ==
    IF child_structures # <<>> \/ child_variables # {}
    THEN IF dot_ct <= DotLimit /\ child_match
         THEN [structure |-> [structure EXCEPT !.children = child_structures],
               variables |-> variables \cup child_variables]
         ELSE [structure |-> structure,
               variables |-> variables \cup {ObjectPath(base, NoProperty)}]
    ELSE [structure |-> structure, variables |-> variables]

\* the end of recursive_compare: keep the child structures or collapse them
Reconcile(structure, variables, child_structures, child_variables, dot_ct, child_match, base) ==
    IF child_structures # <<>> \/ child_variables # {}
    THEN IF dot_ct <= DotLimit \/ child_match
         THEN [structure |-> [structure EXCEPT !.children = child_structures],
               variables |-> variables \cup child_variables]
         ELSE [structure |-> structure,
               variables |-> variables \cup {ObjectPath(base, NoProperty)}]
    ELSE [structure |-> structure, variables |-> variables]

\* zip(*[obj.children for obj in objs]): the number of groups and a group
ZipLen(objs) ==
    IF objs = <<>> THEN 0
    ELSE CHOOSE n \in {Len(objs[i].children) : i \in DOMAIN objs} :
            \A i \in DOMAIN objs : n <= Len(objs[i].children)

KidGroup(objs, idx) == [i \in DOMAIN objs |-> objs[i].children[idx]]

RECURSIVE RecursiveCompare(_, _)
\* Template.recursive_compare; the child at place idx has index idx - 1
RecursiveCompare(objs, base) ==
    LET common == CompareProperties(objs)
        variables == {ObjectPath(base, var) : var \in common.vars}
        places == 1..ZipLen(objs)
        kid(idx) == RecursiveCompare(KidGroup(objs, idx), Append(base, idx - 1))
        child_structures == [idx \in places |-> kid(idx).structure]
        child_variables == UNION {kid(idx).variables : idx \in places}
        child_match == \A idx \in places : AllEqual(KidGroup(objs, idx))
        dot_ct == Cardinality({idx \in places :
                      \E i \in DOMAIN objs : KidGroup(objs, idx)[i].dot})
    IN  Reconcile(common.struc, variables, child_structures, child_variables,
                  dot_ct, child_match, base)

\* single cells, and objects of one colour that may carry a generator
Dots == {TObject(r, c, 0, TRUE, <<>>) : r \in {0, 1}, c \in {1, 2}}

Leaves == Dots \cup {TObject(0, 1, v, FALSE, <<>>) : v \in {0, 2}}

TContainer(row, children) == TObject(row, NULL_COLOR, 0, FALSE, children)

\* DotLimit + 1 cells, all alike but possibly the first
Speckle(first, rest) == [i \in 1..(DotLimit + 1) |-> IF i = 1 THEN first ELSE rest]

Speckles ==
    {TContainer(0, Speckle(d, TObject(0, 1, 0, TRUE, <<>>))) : d \in Dots}

TplObjects ==
    Leaves
    \cup {TContainer(r, <<k>>) : r \in {0, 1}, k \in Leaves}
    \cup {TContainer(0, <<TObject(0, 1, 0, TRUE, <<>>), k>>) : k \in Leaves}
    \cup Speckles
    \cup {TContainer(0, <<k>>) : k \in Speckles}
    \cup {TContainer(r, <<TObject(0, 1, 2, FALSE, <<>>), k>>) :
             r \in {0, 1}, k \in Speckles}

InitTpl ==
    /\ t_pc = "in"
    /\ t_objs \in UNION {[1..n -> TplObjects] : n \in 1..MaxObjs}
    /\ t_structure = 0
    /\ t_variables = {}
    /\ AsIdleB /\ AsIdleF /\ AsIdleA /\ AsIdleS /\ AsIdleR /\ AsIdleC
    /\ AsIdleO /\ AsIdleD /\ AsIdleL

\* Template.from_outputs(objs)
FromOutputs ==
    /\ t_pc = "in"
    /\ LET res == RecursiveCompare(t_objs, <<>>)
       IN  /\ t_structure' = res.structure
           /\ t_variables' = res.variables
    /\ t_pc' = "done"
    /\ UNCHANGED t_objs
    /\ UNCHANGED <<bvars, fvars, avars, svars, rvars, cvars, ovars, dvars, lvars>>

NextTpl == FromOutputs

SpecTpl == InitTpl /\ [][NextTpl]_vars

(***************************************************************************)
(* Properties of the template                                              *)
(***************************************************************************)
RECURSIVE NodePaths(_, _)
\* the paths of the nodes of a structure
NodePaths(structure, base) ==
    {base} \cup UNION {NodePaths(structure.children[i], Append(base, i - 1)) :
                          i \in DOMAIN structure.children}

RECURSIVE NodeAt(_, _)
NodeAt(structure, path) ==
    IF path = <<>> THEN structure
    ELSE NodeAt(structure.children[Head(path) + 1], Tail(path))

RECURSIVE GroupAt(_, _)
\* the objects found at a path, one for each object of the list
GroupAt(objs, path) ==
    IF path = <<>> THEN objs
    ELSE GroupAt(KidGroup(objs, Head(path) + 1), Tail(path))

RECURSIVE Skeleton(_)
Skeleton(o) == [i \in DOMAIN o.children |-> Skeleton(o.children[i])]

\* same index, same role: the objects have children at the same places
Aligned(objs) ==
    \A i, j \in DOMAIN objs : Skeleton(objs[i]) = Skeleton(objs[j])

Marked(path, key) ==
    LET props == NodeAt(t_structure, path).props
    IN  key \in DOMAIN props /\ props[key] = Unknown

\* the objects at path have children and the node has none
Collapsed(path) ==
    /\ NodeAt(t_structure, path).children = <<>>
    /\ ZipLen(GroupAt(t_objs, path)) > 0

\* C20: for the template built by from_outputs from aligned objects, the
\* variables with a property name are exactly the (path, key) of the nodes of
\* the structure whose entry for key is the marker; a property on which all
\* objects agree is stored, with the common value, if and only if that value
\* is not the default; a variable without property name stands at a path
\* whose child list was collapsed.
C20_VariablesMatchMarkers ==
    (t_pc = "done" /\ Aligned(t_objs)) =>
        LET paths == NodePaths(t_structure, <<>>)
        IN  /\ \A var \in t_variables : var.base \in paths
            /\ \A path \in paths : \A key \in Keys :
                  ObjectPath(path, key) \in t_variables <=> Marked(path, key)
            /\ \A path \in paths : \A key \in Keys :
                  LET group == GroupAt(t_objs, path)
                      props == NodeAt(t_structure, path).props
                  IN  (\A i \in DOMAIN group : group[i][key] = group[1][key]) =>
                          /\ key \in DOMAIN props <=> group[1][key] # DefaultOf(key)
                          /\ key \in DOMAIN props => props[key] = group[1][key]
            /\ \A var \in t_variables :
                  var.property \in Keys \/ (var.property = NoProperty /\ Collapsed(var.base))

\* two objects whose rows differ, both holding a child with a collapsed list
C20_Witness ==
    /\ t_pc = "done"
    /\ Len(t_objs) = 2
    /\ Aligned(t_objs)
    /\ ObjectPath(<<1>>, NoProperty) \in t_variables
    /\ ObjectPath(<<0>>, "V") \notin t_variables
    /\ t_structure.children[1].props = [key \in {"color", "V"} |-> IF key = "V" THEN 2 ELSE 1]
    /\ ObjectPath(<<>>, "row") \in t_variables

\* the places of the zipped children of a group
Places(group) == 1..ZipLen(group)

\* all objects are equal at every child place
ChildMatch(group) ==
    \A idx \in Places(group) : AllEqual(KidGroup(group, idx))

\* the child places where some object has a Dot
DotPlaces(group) ==
    {idx \in Places(group) :
        \E i \in DOMAIN group : KidGroup(group, idx)[i].dot}

\* the child places where some object has a Dot and the objects differ
VaryingDotPlaces(group) ==
    {idx \in DotPlaces(group) : ~AllEqual(KidGroup(group, idx))}

\* base is a proper prefix of path
Below(base, path) ==
    Len(path) > Len(base) /\ SubSeq(path, 1, Len(base)) = base

\* the node at path kept one structure for each child place, with all the
\* variables found inside the children
KeptChildren(path) ==
    LET group == GroupAt(t_objs, path)
        node == NodeAt(t_structure, path)
    IN  /\ Len(node.children) = ZipLen(group)
        /\ \A idx \in Places(group) :
              LET kid == RecursiveCompare(KidGroup(group, idx), Append(path, idx - 1))
              IN  /\ node.children[idx].props = kid.structure.props
                  /\ \A var \in kid.variables :
                        var.base = Append(path, idx - 1) => var \in t_variables

\* the node at path has no children, no variable lies below it, and the one
\* variable without property name stands for it
CollapsedChildren(path) ==
    /\ NodeAt(t_structure, path).children = <<>>
    /\ \A var \in t_variables : ~Below(path, var.base)
    /\ ObjectPath(path, NoProperty) \in t_variables

\* C21 as stated: the children are kept when at most 5 Dot children vary
\* across the objects or all children agree, and collapsed otherwise.
C21_KeepByVaryingDots ==
    t_pc = "done" =>
        \A path \in NodePaths(t_structure, <<>>) :
            LET group == GroupAt(t_objs, path)
            IN  ZipLen(group) > 0 =>
                    IF Cardinality(VaryingDotPlaces(group)) <= DotLimit \/ ChildMatch(group)
                    THEN KeptChildren(path) /\ ObjectPath(path, NoProperty) \notin t_variables
                    ELSE CollapsedChildren(path)

\* C21: in recursive_compare at a node with children, if at most 5 child
\* places hold a Dot in some object, or the objects agree at every child
\* place, the node keeps one child structure for each place and the variables
\* found inside the children; otherwise its children list is left empty,
\* every variable found inside the children is discarded, and the one
\* variable ObjectPath(base) without property is added for the node.
C21_KeepByDotPlaces ==
    t_pc = "done" =>
        \A path \in NodePaths(t_structure, <<>>) :
            LET group == GroupAt(t_objs, path)
            IN  ZipLen(group) > 0 =>
                    IF Cardinality(DotPlaces(group)) <= DotLimit \/ ChildMatch(group)
                    THEN KeptChildren(path) /\ ObjectPath(path, NoProperty) \notin t_variables
                    ELSE CollapsedChildren(path)

\* two objects of six cells that differ in the first cell only: collapsed
C21_Witness ==
    /\ t_pc = "done"
    /\ Len(t_objs) = 2
    /\ Cardinality(DotPlaces(t_objs)) = DotLimit + 1
    /\ Cardinality(VaryingDotPlaces(t_objs)) = 1
    /\ t_structure.children = <<>>
    /\ t_variables = {ObjectPath(<<>>, NoProperty)}

(***************************************************************************)
(* Template.create_output and Template.validate_link_map                   *)
(***************************************************************************)
MaxBind == 2

MaxRepeat == 2

\* base[:-1]
Front(base) == SubSeq(base, 1, Len(base) - 1)

RECURSIVE Reach(_, _, _)
\* the loop of get_base: an index that cannot be followed is skipped and the
\* loop goes on with the next index from the node reached so far
Reach(root, at, rest) ==
    IF rest = <<>> THEN at
    ELSE IF Head(rest) < Len(NodeAt(root, at).children)
         THEN Reach(root, Append(at, Head(rest)), Tail(rest))
         ELSE Reach(root, at, Tail(rest))

\* the place of the node that get_base returns
GetBasePath(base, root) == Reach(root, <<>>, base)

\* Template.get_base
GetBase(base, root) == NodeAt(root, GetBasePath(base, root))

RECURSIVE PutNode(_, _, _)
\* the structure with the node at a path replaced
PutNode(root, path, node) ==
    IF path = <<>> THEN node
    ELSE [root EXCEPT !.children[Head(path) + 1] =
             PutNode(root.children[Head(path) + 1], Tail(path), node)]

\* props[key] = value
SetProp(props, key, value) ==
    [k \in DOMAIN props \cup {key} |-> IF k = key THEN value ELSE props[k]]

\* the frame is the very object that is the structure of the template
SameObject(structure) ==
    [frame |-> structure, shared |-> TRUE, own |-> structure, raised |-> FALSE]

\* deepcopy(self.structure): frame is the copy, own the structure of the
\* template, shared tells whether a write to frame is a write to own
DeepCopy(structure) ==
    [frame |-> structure, shared |-> FALSE, own |-> structure, raised |-> FALSE]

\* a write into the node of frame at a place
WriteNode(st, at, node) ==
    [st EXCEPT !.frame = PutNode(st.frame, at, node),
               !.own = IF st.shared THEN PutNode(st.own, at, node) ELSE st.own]

\* Template.apply_variable
ApplyVariable(st, path, value) ==
    LET at == GetBasePath(path.base, st.frame)
        target == NodeAt(st.frame, at)
    IN  IF path.property = NoProperty THEN st
        ELSE WriteNode(st, at,
                 [target EXCEPT !.props = SetProp(target.props, path.property, value)])

\* Template.apply_object
ApplyObject(st, path, object) ==
    LET obj_def == RecursiveCompare(<<object>>, <<>>).structure
        at == GetBasePath(Front(path.base), st.frame)
        target == NodeAt(st.frame, at)
        last == path.base[Len(path.base)]
    IN  IF path.base = <<>>
        THEN [st EXCEPT !.frame = obj_def, !.shared = FALSE]
        ELSE IF last >= Len(target.children)
        THEN [st EXCEPT !.raised = TRUE]
        ELSE WriteNode(st, at, [target EXCEPT !.children[last + 1] = obj_def])

Binding(path, kind, value, object) ==
    [path |-> path, kind |-> kind, value |-> value, object |-> object]

\* one round of the loop over the bindings
ApplyBinding(st, b) ==
    IF st.raised THEN st
    ELSE IF b.kind = "object" THEN ApplyObject(st, b.path, b.object)
    ELSE ApplyVariable(st, b.path, b.value)

RECURSIVE ApplyAll(_, _)
ApplyAll(st, bindings) ==
    IF bindings = <<>> THEN st
    ELSE ApplyAll(ApplyBinding(st, Head(bindings)), Tail(bindings))

RECURSIVE Generate(_)
\* Template.generate: markers and unset entries give the default
Generate(structure) ==
    LET value(key) ==
            IF key \in DOMAIN structure.props /\ structure.props[key] # Unknown
            THEN structure.props[key] ELSE DefaultOf(key)
    IN  [row |-> value("row"), color |-> value("color"), V |-> value("V"),
         children |-> [i \in DOMAIN structure.children |->
                          Generate(structure.children[i])]]

\* the order of two bases, as tuples
BaseLess(a, b) ==
    \E i \in 1..Len(b) :
        /\ i <= Len(a) + 1
        /\ SubSeq(a, 1, i - 1) = SubSeq(b, 1, i - 1)
        /\ (i = Len(a) + 1 \/ a[i] < b[i])

\* the order of two paths: by base, a path without property first
PathLess(p, q) ==
    \/ BaseLess(p.base, q.base)
    \/ p.base = q.base /\ p.property = NoProperty /\ q.property # NoProperty

Range(seq) == {seq[i] : i \in DOMAIN seq}

Orders(seq) ==
    {perm \in [DOMAIN seq -> Range(seq)] : Range(perm) = Range(seq)}

\* the bindings in the order they were listed
Unsorted(bindings) == bindings

\* sorted(outputs), for bindings of different paths
Sorted(bindings) ==
    CHOOSE perm \in Orders(bindings) :
        \A i, j \in DOMAIN perm : i < j => PathLess(perm[i].path, perm[j].path)

\* what a call leaves and returns: no object when it raised
Outcome(st) ==
    [own |-> st.own, out |-> IF st.raised THEN <<>> ELSE <<Generate(st.frame)>>]

\* Template.create_output
CreateOutputRun(structure, outputs) ==
    Outcome(ApplyAll(DeepCopy(structure), Sorted(outputs)))

\* Template.validate_link_map: the items of the map in their own order
ValidateLinkMapRun(structure, link_map) ==
    Outcome(ApplyAll(DeepCopy(structure), link_map))

OutDot == TObject(0, 1, 0, TRUE, <<>>)

OutDotBelow == TObject(1, 2, 0, TRUE, <<>>)

OutObjectA == TContainer(0, <<TContainer(1, <<OutDot>>), OutDotBelow>>)

OutObjectB == TContainer(1, <<TContainer(1, <<OutDotBelow>>), OutDotBelow>>)

\* the lists of objects the templates are built from
OutLists ==
    { <<OutObjectA>>, <<OutObjectA, OutObjectB>>, <<OutDot>>,
      <<TContainer(0, <<OutDot>>), TContainer(0, <<OutDotBelow>>)>>,
      <<TContainer(0, Speckle(OutDot, OutDot)),
        TContainer(0, Speckle(OutDotBelow, OutDot))>> }

OutBases == {<<>>, <<0>>, <<0, 0>>, <<2, 0>>}

OutBindings ==
    {Binding(ObjectPath(base, property), "value", 3, OutDot) :
        base \in OutBases, property \in {NoProperty, "row"}}
    \cup {Binding(ObjectPath(base, NoProperty), "object", 0, object) :
             base \in OutBases, object \in {OutDotBelow, TContainer(1, <<OutDot>>)}}

\* lists of bindings, no path bound twice
BindingLists ==
    UNION {{seq \in [1..n -> OutBindings] :
               \A i, j \in 1..n : i # j => seq[i].path # seq[j].path} :
           n \in 0..MaxBind}

InitOut ==
    /\ t_pc = "done"
    /\ t_objs \in OutLists
    /\ t_structure = RecursiveCompare(t_objs, <<>>).structure
    /\ t_variables = RecursiveCompare(t_objs, <<>>).variables
    /\ o_fn = ""
    /\ o_n = 0
    /\ o_bindings \in BindingLists
    /\ o_out = <<>>
    /\ o_prev = <<>>
    /\ AsIdleB /\ AsIdleF /\ AsIdleA /\ AsIdleS /\ AsIdleR /\ AsIdleC
    /\ AsIdleD /\ AsIdleL

\* template.create_output(outputs)
CreateOutput ==
    /\ o_fn \in {"", "create_output"}
    /\ o_n < MaxRepeat
    /\ LET res == CreateOutputRun(t_structure, o_bindings)
       IN  /\ t_structure' = res.own
           /\ o_out' = res.out
    /\ o_prev' = o_out
    /\ o_fn' = "create_output"
    /\ o_n' = o_n + 1
    /\ UNCHANGED <<t_pc, t_objs, t_variables, o_bindings>>
    /\ UNCHANGED <<bvars, fvars, avars, svars, rvars, cvars, dvars, lvars>>

\* template.validate_link_map(link_map)
ValidateLinkMap ==
    /\ o_fn \in {"", "validate_link_map"}
    /\ o_n < MaxRepeat
    /\ LET res == ValidateLinkMapRun(t_structure, o_bindings)
       IN  /\ t_structure' = res.own
           /\ o_out' = res.out
    /\ o_prev' = o_out
    /\ o_fn' = "validate_link_map"
    /\ o_n' = o_n + 1
    /\ UNCHANGED <<t_pc, t_objs, t_variables, o_bindings>>
    /\ UNCHANGED <<bvars, fvars, avars, svars, rvars, cvars, dvars, lvars>>

NextOut == CreateOutput \/ ValidateLinkMap

SpecOut == InitOut /\ [][NextOut]_vars

(***************************************************************************)
(* Properties of create_output and validate_link_map                       *)
(***************************************************************************)
\* C22: create_output and validate_link_map work on a deep copy: whatever
\* the bindings, the structure and the variables of the template are after
\* the call what from_outputs built, and a repeated call with the same
\* bindings returns an equal object.
C22_TemplateUntouched ==
    o_n >= 1 =>
        /\ t_structure = RecursiveCompare(t_objs, <<>>).structure
        /\ t_variables = RecursiveCompare(t_objs, <<>>).variables
        /\ o_n >= 2 => o_out = o_prev

\* two calls with an object binding and a scalar binding have returned an
\* object that is not the one the bare structure generates
C22_Witness ==
    /\ o_n = 2
    /\ Len(o_bindings) = 2
    /\ \E i, j \in DOMAIN o_bindings :
          o_bindings[i].kind = "object" /\ o_bindings[j].kind = "value"
    /\ o_out # <<>>
    /\ o_out # <<Generate(t_structure)>>
    /\ o_prev = o_out

\* every base of the bindings is the path of a node of the object
AllValidIn(obj) ==
    \A i \in DOMAIN o_bindings :
        GetBasePath(o_bindings[i].path.base, obj) = o_bindings[i].path.base

\* the binding shows in the object: a scalar as the property of the node at
\* its path, an object as the node at its path, with its children places and
\* with its properties where no scalar of the list is bound to them
Reflected(b, obj) ==
    LET node == NodeAt(obj, b.path.base)
    IN  IF b.kind = "value"
        THEN b.path.property # NoProperty => node[b.path.property] = b.value
        ELSE /\ Len(node.children) = Len(b.object.children)
             /\ \A key \in Keys :
                   (\A i \in DOMAIN o_bindings :
                       o_bindings[i].path # ObjectPath(b.path.base, key))
                   => node[key] = b.object[key]

RECURSIVE StopAt(_, _, _)
\* the node reached when the first index that cannot be followed ends the walk
StopAt(root, at, rest) ==
    IF rest = <<>> THEN at
    ELSE IF Head(rest) < Len(NodeAt(root, at).children)
         THEN StopAt(root, Append(at, Head(rest)), Tail(rest))
         ELSE at

\* C24: get_base never raises; when a child index of the path is out of
\* range it returns the last node reached before that index and descends no
\* further, so that a scalar bound to such a path is written to that node and
\* the call still returns an object.
C24_GetBaseStopsAtFailingIndex ==
    (o_fn = "create_output" /\ o_n >= 1 /\ Len(o_bindings) = 1
        /\ o_bindings[1].kind = "value"
        /\ o_bindings[1].path.property # NoProperty) =>
        LET b == o_bindings[1]
            at == StopAt(t_structure, <<>>, b.path.base)
            node == NodeAt(t_structure, at)
            written == [node EXCEPT
                           !.props = SetProp(node.props, b.path.property, b.value)]
        IN  /\ GetBasePath(b.path.base, t_structure) = at
            /\ o_out = <<Generate(PutNode(t_structure, at, written))>>

(***************************************************************************)
(* Adjoin and Align (arc/actions.py)                                       *)
(***************************************************************************)
\* the signed distance along one axis that brings the extent [lo1, lo1 + n1)
\* into contact with [lo2, lo2 + n2); 0 when the two overlap or touch
AxisGap(lo1, n1, lo2, n2) ==
    IF lo1 + n1 <= lo2 THEN lo2 - (lo1 + n1)
    ELSE IF lo2 + n2 <= lo1 THEN (lo2 + n2) - lo1
    ELSE 0

Magnitude(x) == IF x < 0 THEN 0 - x ELSE x

\* chebyshev_vector: the offset of smaller magnitude along one axis, the row
\* axis when both are alike, (0, 0) when the objects are in contact
ChebyshevVector(a, b) ==
    LET dr == AxisGap(a.row, Shape(a)[1], b.row, Shape(b)[1])
        dc == AxisGap(a.col, Shape(a)[2], b.col, Shape(b)[2])
    IN  IF dr # 0 /\ dc # 0
        THEN IF Magnitude(dr) <= Magnitude(dc) THEN <<dr, 0>> ELSE <<0, dc>>
        ELSE <<dr, dc>>

\* Adjoin.act
AdjoinAct(o, secondary) ==
    LET ch_vector == ChebyshevVector(o, secondary)
    IN  IF ch_vector[1] # 0 THEN TranslateAct(o, ch_vector[1], 0)
        ELSE IF ch_vector[2] # 0 THEN TranslateAct(o, 0, ch_vector[2])
        ELSE o

\* Align.act adding the extent whatever the direction
AlignActForward(o, secondary) ==
    LET ch_vector == ChebyshevVector(o, secondary)
    IN  IF ch_vector[1] # 0
        THEN TranslateAct(o, ch_vector[1] + Shape(o)[1], 0)
        ELSE IF ch_vector[2] # 0
        THEN TranslateAct(o, 0, ch_vector[2] + Shape(o)[2])
        ELSE o

\* Align.act
AlignAct(o, secondary) ==
    LET ch_vector == ChebyshevVector(o, secondary)
        sign(x) == IF x < 0 THEN -1 ELSE 1
    IN  IF ch_vector[1] # 0
        THEN TranslateAct(o, ch_vector[1] + sign(ch_vector[1]) * Shape(o)[1], 0)
        ELSE IF ch_vector[2] # 0
        THEN TranslateAct(o, 0, ch_vector[2] + sign(ch_vector[2]) * Shape(o)[2])
        ELSE o

\* the primaries: a cell repeated V + 1 by H + 1 times at several anchors
Primaries ==
    {AObject(a[1], a[2], 1, <<<<1>>>>, TRUE, V, H) :
        a \in {<<0, 0>>, <<2, 1>>, <<1, 4>>, <<5, 5>>, <<6, 1>>, <<3, 3>>},
        V \in {0, 1}, H \in {0, 1}}

\* the secondaries: a square at (3, 3), a point at (4, 0), a bar at (0, 2)
Targets ==
    {AObject(3, 3, 2, <<<<2>>>>, TRUE, 1, 1),
     AObject(4, 0, 2, <<<<2>>>>, FALSE, 0, 0),
     AObject(0, 2, 2, <<<<2>>>>, TRUE, 0, 2)}

PairCalls == {PairCall(code, b) : code \in {"A", "L"}, b \in Targets}

\* action_map[call.code].act(o, call.sec) for Adjoin and Align
RunPair(call, o) ==
    IF call.code = "A" THEN AdjoinAct(o, call.sec) ELSE AlignAct(o, call.sec)

InitPair ==
    /\ s_pc = "run"
    /\ s_fam = "pair"
    /\ s_obj \in Primaries
    /\ s_calls = <<>>
    /\ s_cur = s_obj
    /\ AsIdleB /\ AsIdleF /\ AsIdleA /\ AsIdleR /\ AsIdleC /\ AsIdleT
    /\ AsIdleO /\ AsIdleD /\ AsIdleL

\* s_cur = A.act(s_obj, secondary)
ApplyPair(call) ==
    /\ s_pc = "run"
    /\ s_calls = <<>>
    /\ s_cur' = RunPair(call, s_cur)
    /\ s_calls' = <<call>>
    /\ UNCHANGED <<s_pc, s_fam, s_obj>>
    /\ UNCHANGED <<bvars, fvars, avars, rvars, cvars, tvars, ovars, dvars, lvars>>

NextPair == \E call \in PairCalls : ApplyPair(call)

SpecPair == InitPair /\ [][NextPair]_vars

\* C25: Adjoin.act and Align.act leave the primary unchanged when the vector
\* is (0, 0) and move it along one axis otherwise: the row when the row
\* component is not zero, else the column; Adjoin by the component, Align by
\* the component plus the extent of the primary on that axis, in the same
\* direction.
C25_PairwiseMoveAlongOneAxis ==
    (s_fam = "pair" /\ Len(s_calls) = 1) =>
        LET call == s_calls[1]
            vec == ChebyshevVector(s_obj, call.sec)
            axis == IF vec[1] # 0 THEN 1 ELSE 2
            extent == IF call.code = "A" THEN 0
                      ELSE IF vec[axis] < 0 THEN 0 - Shape(s_obj)[axis]
                      ELSE Shape(s_obj)[axis]
            step == IF vec[axis] = 0 THEN 0 ELSE vec[axis] + extent
        IN  /\ vec = <<0, 0>> => s_cur = s_obj
            /\ axis = 1 => s_cur = MovedTo(s_obj, s_obj.row + step, s_obj.col)
            /\ axis = 2 => s_cur = MovedTo(s_obj, s_obj.row, s_obj.col + step)

\* Align moved a primary of two rows upwards past the point of contact
C25_Witness ==
    /\ s_fam = "pair"
    /\ Len(s_calls) = 1
    /\ s_calls[1].code = "L"
    /\ Shape(s_obj)[1] = 2
    /\ ChebyshevVector(s_obj, s_calls[1].sec)[1] < 0
    /\ s_cur.row = s_obj.row + ChebyshevVector(s_obj, s_calls[1].sec)[1] - 2
    /\ s_cur.col = s_obj.col

(***************************************************************************)
(* One call of Board._decomposition                                        *)
(***************************************************************************)
MaxKids == 3

\* the children of the finished objects handed to _decomposition
DecKids == {Dot, Line, FromGrid(2), FromGrid(3),
            Container(<<FromGrid(2), Dot>>, TRUE)}

DecObjects ==
    {Dot, Line}
    \cup {FromGrid(n) : n \in 1..MaxDots}
    \cup UNION {{Container(kids, TRUE) : kids \in [1..n -> DecKids]} :
                   n \in 1..MaxKids}

\* the processes whose run generate_candidates calls for obj, in order
RunCalls(obj, procs) ==
    LET accepts(p) == ProcessTest(p, obj)
    IN  IF Len(obj.ch) = 0 \/ obj.fin THEN <<>> ELSE SelectSeq(procs, accepts)

InitDec ==
    /\ d_pc = "in"
    /\ d_obj \in DecObjects
    /\ d_procs \in ListsUpTo(ProcessKinds, MaxProcs)
    /\ d_res = <<>>
    /\ d_ran = <<>>
    /\ AsIdleB /\ AsIdleF /\ AsIdleA /\ AsIdleS /\ AsIdleR /\ AsIdleC
    /\ AsIdleT /\ AsIdleO /\ AsIdleL

\* board._decomposition(obj)
DecompositionCall ==
    /\ d_pc = "in"
    /\ d_res' = Decomposition(d_obj, d_procs)
    /\ d_ran' = RunCalls(d_obj, d_procs)
    /\ d_pc' = "done"
    /\ UNCHANGED <<d_obj, d_procs>>
    /\ UNCHANGED <<bvars, fvars, avars, svars, rvars, cvars, tvars, ovars, lvars>>

NextDec == DecompositionCall

SpecDec == InitDec /\ [][NextDec]_vars

\* the children of d_obj that have candidates
Decomposable ==
    {i \in 1..Len(d_obj.ch) : Decomposition(d_obj.ch[i], d_procs) # <<>>}

Contributing ==
    {i \in 1..Len(d_procs) :
        ProcessTest(d_procs[i], d_obj) /\ ProcessRun(d_procs[i], d_obj) # <<>>}

\* C27: _decomposition returns nothing for a leaf; for an unfinished
\* container it returns the results of run, where there is one, of the
\* processes whose test accepts the object, in registration order: at most
\* one candidate for each process, run called only where test accepted, and
\* nothing for a run that gave None.
C27_CandidatesOfAcceptingProcesses ==
    d_pc = "done" =>
        /\ Len(d_obj.ch) = 0 => d_res = <<>> /\ d_ran = <<>>
        /\ (Len(d_obj.ch) > 0 /\ ~d_obj.fin) =>
              /\ Len(d_res) = Cardinality(Contributing)
              /\ Len(d_res) <= Len(d_procs)
              /\ \A i \in Contributing :
                    d_res[Cardinality({j \in Contributing : j <= i})]
                        = ProcessRun(d_procs[i], d_obj)[1]
              /\ \A k \in 1..Len(d_ran) : ProcessTest(d_ran[k], d_obj)
              /\ Len(d_ran) >= Len(d_res)

\* two processes accepted the container, one of them gave None
C27_Witness ==
    /\ d_pc = "done"
    /\ Len(d_obj.ch) > 0 /\ ~d_obj.fin
    /\ Len(d_procs) = 2
    /\ Len(d_ran) = 2
    /\ Len(d_res) = 1
    /\ "Picky" \in {d_procs[i] : i \in 1..Len(d_procs)}

(***************************************************************************)
(* One call of Board.select_representation                                 *)
(***************************************************************************)
MaxHeld == 2

\* the objects held: of props 2, 4, 4, 5 and 6, the last one changed by
\* flatten
Candidates ==
    {Line, FromGrid(2), Container(<<Line>>, TRUE), FromGrid(3),
     Container(<<FromGrid(2)>>, TRUE)}

Held == UNION {[1..n -> Candidates] : n \in 0..MaxHeld}

\* what select_representation leaves of the Board
SelectCall(r, bk, q) ==
    [rep |-> SelectRepresentation(r, bk, q, <<>>).rep, bank |-> bk, proc_q |-> q]

InitSel ==
    /\ l_pc = "in"
    /\ l_rep \in Candidates
    /\ l_bank \in Held
    /\ l_q \in Held
    /\ l_was = <<>>
    /\ AsIdleB /\ AsIdleF /\ AsIdleA /\ AsIdleS /\ AsIdleR /\ AsIdleC
    /\ AsIdleT /\ AsIdleO /\ AsIdleD

\* board.select_representation()
SelectRepresentationCall ==
    /\ l_pc = "in"
    /\ LET res == SelectCall(l_rep, l_bank, l_q)
       IN  l_rep' = res.rep /\ l_bank' = res.bank /\ l_q' = res.proc_q
    /\ l_was' = <<l_rep, l_bank, l_q>>
    /\ l_pc' = "done"
    /\ UNCHANGED <<bvars, fvars, avars, svars, rvars, cvars, tvars, ovars, dvars>>

NextSel == SelectRepresentationCall

SpecSel == InitSel /\ [][NextSel]_vars

\* the rep select_representation leaves: the flattened first object, in the
\* order bank then proc_q, among those of least props, when that is less
\* than the props of the rep it starts from
ChosenRep(r, bk, q) ==
    LET objs == bk \o q
        cheaper == {i \in 1..Len(objs) : Props(objs[i]) < Props(r)}
        least == {i \in cheaper : \A j \in cheaper : Props(objs[i]) <= Props(objs[j])}
    IN  IF cheaper = {} THEN r
        ELSE Flatten(objs[CHOOSE i \in least : \A j \in least : i <= j])

\* C28: select_representation changes rep only: bank and proc_q are after
\* the call what they were before it, so that candidates that cost more stay
\* where they are; of several candidates of the smallest props the first in
\* the order bank, proc_q becomes rep (flattened), and rep stays when no
\* candidate costs strictly less.
C28_SelectChangesRepOnly ==
    l_pc = "done" =>
        /\ l_bank = l_was[2]
        /\ l_q = l_was[3]
        /\ l_rep = ChosenRep(l_was[1], l_was[2], l_was[3])

\* two different candidates of the same, smallest props were held, the
\* second in bank and the first in proc_q: rep is the one of bank, and a
\* candidate that costs more is still held
C28_Witness ==
    /\ l_pc = "done"
    /\ Len(l_bank) = 2 /\ Len(l_q) = 1
    /\ Props(l_bank[1]) > Props(l_bank[2])
    /\ Props(l_bank[2]) = Props(l_q[1])
    /\ l_bank[2] # l_q[1]
    /\ Props(l_bank[2]) < Props(l_was[1])
    /\ l_rep = Flatten(l_bank[2])
    /\ l_rep # l_was[1]

====
